---- MODULE Spec2Model ----
(***************************************************************************)
(* reredis: LRU+TTL store, write-ahead log, cluster manager, broadcast hub *)
(* and the TCP / WebSocket command paths of one node.                      *)
(***************************************************************************)
EXTENDS Integers, Sequences, FiniteSets, TLC

(***************************************************************************)
(* Bounds of the model                                                     *)
(***************************************************************************)
\* capacity of the store (store.go sets 1000; scaled down so eviction happens)
maxSize ==
  2
\* the clock runs from 0 to MaxTime
MaxTime ==
  2
\* SetWithTTL durations are drawn from 0..MaxTTL
MaxTTL ==
  1

\* keys and values are byte strings: "a", "c", "d" and "1", "2"
Keys ==
  { <<97>>, <<99>>, <<100>> }
Values ==
  { <<49>>, <<50>> }

\* expiration == nil in cacheItem
Nil ==
  -1

\* nodes a manager can know
MaxNodes ==
  4

\* TCP and WebSocket connections of the model
TcpConns ==
  { 1, 2 }
\* connection 1 carries a client's key commands, connection 2 the CLUSTER MEET
\* commands of an administrator
ClientConn ==
  1
AdminConn ==
  2
\* keys the TCP and WebSocket clients use: "a" and "d"
CmdKeys ==
  { <<97>>, <<100>> }
WsConns ==
  { 1, 2 }
\* the WebSocket client that sends commands next to the TCP clients
WsClient ==
  1
\* commands received over all connections
MaxCmds ==
  2
\* process restarts
MaxBoots ==
  1

\* main.go: the node registers itself as 127.0.0.1:<port>, default port 6379
SelfHost ==
  "127.0.0.1"
SelfPort ==
  "6379"
\* host and port arguments of CLUSTER MEET
Hosts ==
  { "127.0.0.1" }
Ports ==
  { "7001", "7002" }

VARIABLES
  data,       \* Store.data: key -> cacheItem (value, expiration) of its list element
  lruList,    \* Store.lruList: keys of the list elements, front first
  withTTL,    \* Store.withTTL: keys tracked for cleanup sampling
  mu,         \* Store.mu: "free" or "cleanup" (command operations hold it for one step)
  cleanupPc,  \* position of the cleanup goroutine: "idle" or "locked"
  now,        \* time.Now()
  Nodes,      \* Manager.Nodes: the known nodes, in the sorted order of their ids
  self,       \* Manager.Node: position in Nodes of this server's node (the same object)
  wal,        \* records in the file reredis.wal, in append order
  durable,    \* number of leading records of wal that a Sync has covered
  tcp,        \* TCP connection goroutines: position, command, locals
  ws,         \* WebSocket connection goroutines: position, pending update
  clients,    \* Hub.clients
  wsInbox,    \* WriteMessage calls of the hub on each WebSocket connection: message, error
  hubLog,     \* messages the hub has taken from its broadcast channel
  boots,      \* number of process restarts so far
  issued,     \* number of key commands the clients have sent so far
  recency,    \* store tests: stored keys a caller touched by Set or a successful Get, latest first
  evicted,    \* store tests: keys the caller saw leave on its last Set of a new key into a full store
  lapsed,     \* store tests: keys whose last Get found them expired and that were not set since
  cleared,    \* store tests: key -> expiration that a later Set without TTL replaced
  probed,     \* store tests: keys read by Get after their replaced expiration had passed
  hashIn,     \* hashslot tests: the strings of the last CalculateSlot calls
  hashOut,    \* hashslot tests: the slots those calls returned
  cmds,       \* wal tests: the commands handed to Writer.WriteCommand, in order
  file,       \* wal tests: the bytes of the log file
  torn,       \* wal tests: where a crash cut the file (complete records, bytes kept of the next)
  readLog,    \* wal tests: the entries and the final result of reading the file back
  mgr,        \* goroutines inside a Manager method: position, loaded value, argument
  calls,      \* number of Manager and Writer methods the goroutines have entered so far
  appender,   \* goroutines inside Writer.WriteCommand: position, command
  lockq,      \* goroutines blocked in s.mu.Lock(): the store operation each has called
  page,       \* key listing: the last request of GET /api/v1/keys and its result
  peers,      \* three processes of a cluster: the Manager (Nodes, self) of each
  hubRun      \* Hub.Run and the writers of the WebSocket connections, step by step

storeVars ==
  <<data, lruList, withTTL>>

lockVars ==
  <<mu, cleanupPc>>

clusterVars ==
  <<Nodes, self>>

walVars ==
  <<wal, durable>>

hubVars ==
  <<clients, wsInbox, hubLog>>

connVars ==
  <<tcp, ws>>

\* what a caller of the store API has observed
apiVars ==
  <<recency, evicted, lapsed, cleared, probed>>

\* inputs and results of the hashslot and wal tests
fnVars ==
  <<hashIn, hashOut, cmds, file, torn, readLog>>

\* goroutines that run concurrently against the shared objects
taskVars ==
  <<mgr, calls, appender, lockq, page, peers, hubRun>>

\* goroutines that call the Manager (one per TCP connection)
MgrTasks ==
  { 1, 2 }

\* a goroutine outside every Manager method
IdleTask ==
  [pc |-> "idle", round |-> 0, reg |-> 0, bytes |-> 0, slot |-> 0]

\* --port of the three processes of the README's 3-node cluster
PeerPorts ==
  { "6379", "6380", "6381" }

\* no key listing was requested
NotPaged ==
  [cursor |-> << >>, limit |-> 0, all |-> << >>, keys |-> << >>,
   next_cursor |-> << >>, has_more |-> FALSE]

\* goroutines that call the store
Callers ==
  { 1, 2 }

\* a goroutine outside WriteCommand
IdleAppender ==
  [pc |-> "idle", cmd |-> << >>]

InitTasks ==
  /\ mgr = [t \in MgrTasks |-> IdleTask]
  /\ calls = 0
  /\ appender = [c \in TcpConns |-> IdleAppender]
  /\ lockq = [t \in Callers |-> "idle"]
  /\ page = NotPaged

\* the log was not cut
NotTorn ==
  << >>

\* the log was not read
NotRead ==
  [entries |-> << >>, end |-> "unread"]

\* no CalculateSlot call yet, an empty log file
InitFn ==
  /\ hashIn = << >>
  /\ hashOut = << >>
  /\ cmds = << >>
  /\ file = << >>
  /\ torn = NotTorn
  /\ readLog = NotRead

\* a caller that has observed nothing yet
InitApi ==
  /\ recency = << >>
  /\ evicted = {}
  /\ lapsed = {}
  /\ cleared = [k \in Keys |-> Nil]
  /\ probed = {}

vars ==
  <<data, lruList, withTTL, mu, cleanupPc, now, Nodes, self, wal, durable,
    tcp, ws, clients, wsInbox, hubLog, boots, issued,
    recency, evicted, lapsed, cleared, probed,
    hashIn, hashOut, cmds, file, torn, readLog,
    mgr, calls, appender, lockq, page, peers, hubRun>>

(***************************************************************************)
(* container/list and map helpers                                          *)
(***************************************************************************)
Range(s) ==
  { s[i] : i \in DOMAIN s }

\* list.Remove(elem): a no-op when the element is not in the list
ListRemove(l, k) ==
  SelectSeq(l, LAMBDA x : x # k)

\* list.MoveToFront(elem): a no-op when the element is not in the list
ListMoveToFront(l, k) ==
  IF k \in Range(l) THEN <<k>> \o ListRemove(l, k) ELSE l

\* delete(m, k) on a Go map
MapDelete(m, k) ==
  [x \in (DOMAIN m) \ {k} |-> m[x]]

\* m[k] = v on a Go map
MapPut(m, k, v) ==
  [x \in (DOMAIN m) \cup {k} |-> IF x = k THEN v ELSE m[x]]

Min(a, b) ==
  IF a < b THEN a ELSE b

(***************************************************************************)
(* internal/store/store.go                                                 *)
(***************************************************************************)
\* evictLRU that forgets delete(s.data, item.key)
evictLRUKeepsMapEntry(d, l, t) ==
  IF Len(l) = 0
  THEN <<d, l, t>>
  ELSE LET key == l[Len(l)] IN
       <<d, SubSeq(l, 1, Len(l) - 1), t \ {key}>>

\* evictLRU applied to a store value (d, l, t): removes the back of the list
evictLRU(d, l, t) ==
  IF Len(l) = 0
  THEN <<d, l, t>>
  ELSE LET key == l[Len(l)] IN
       <<MapDelete(d, key), SubSeq(l, 1, Len(l) - 1), t \ {key}>>

\* setInternal that keeps the old expiration of an existing key when called
\* without one
setInternalKeepsExpiration(key, value, expiration) ==
  /\ mu = "free"
  /\ IF key \in DOMAIN data
     THEN /\ data' = MapPut(data, key,
                            [value |-> value,
                             expiration |-> IF expiration = Nil
                                            THEN data[key].expiration
                                            ELSE expiration])
          /\ lruList' = ListMoveToFront(lruList, key)
          /\ withTTL' = IF expiration # Nil THEN withTTL \cup {key} ELSE withTTL
     ELSE LET d1 == MapPut(data, key, [value |-> value, expiration |-> expiration])
              l1 == <<key>> \o lruList
              t1 == IF expiration # Nil THEN withTTL \cup {key} ELSE withTTL
              st == IF Len(l1) > maxSize THEN evictLRU(d1, l1, t1) ELSE <<d1, l1, t1>>
          IN  /\ data' = st[1]
              /\ lruList' = st[2]
              /\ withTTL' = st[3]

\* setInternal(key, value, expiration), under the lock
setInternal(key, value, expiration) ==
  /\ mu = "free"
  /\ IF key \in DOMAIN data
     THEN /\ data' = MapPut(data, key, [value |-> value, expiration |-> expiration])
          /\ lruList' = ListMoveToFront(lruList, key)
          /\ withTTL' = IF expiration # Nil THEN withTTL \cup {key} ELSE withTTL \ {key}
     ELSE LET d1 == MapPut(data, key, [value |-> value, expiration |-> expiration])
              l1 == <<key>> \o lruList
              t1 == IF expiration # Nil THEN withTTL \cup {key} ELSE withTTL
              st == IF Len(l1) > maxSize THEN evictLRU(d1, l1, t1) ELSE <<d1, l1, t1>>
          IN  /\ data' = st[1]
              /\ lruList' = st[2]
              /\ withTTL' = st[3]

\* Set(key, value)
Set(key, value) ==
  setInternal(key, value, Nil)

\* SetWithTTL(key, value, ttl): expiration = time.Now().Add(ttl)
SetWithTTL(key, value, ttl) ==
  setInternal(key, value, now + ttl)

\* the key is stored and its expiration lies before time.Now()
IsExpired(key) ==
  /\ key \in DOMAIN data
  /\ data[key].expiration # Nil
  /\ data[key].expiration < now

\* second return value of Get(key)
GetOk(key) ==
  key \in DOMAIN data /\ ~IsExpired(key)

\* first return value of Get(key) ("" when absent)
GetValue(key) ==
  IF GetOk(key) THEN data[key].value ELSE <<>>

\* Get that returns the value without moving the element to the front
GetNoTouch(key) ==
  /\ mu = "free"
  /\ IF key \in DOMAIN data /\ IsExpired(key)
     THEN /\ data' = MapDelete(data, key)
          /\ lruList' = ListRemove(lruList, key)
          /\ UNCHANGED withTTL
     ELSE UNCHANGED storeVars

\* Get that reports an expired key as absent but leaves its entry in place
GetKeepsExpired(key) ==
  /\ mu = "free"
  /\ IF key \in DOMAIN data /\ ~IsExpired(key)
     THEN /\ lruList' = ListMoveToFront(lruList, key)
          /\ UNCHANGED <<data, withTTL>>
     ELSE UNCHANGED storeVars

\* state change of Get(key), under the lock
Get(key) ==
  /\ mu = "free"
  /\ IF key \notin DOMAIN data
     THEN UNCHANGED storeVars
     ELSE IF IsExpired(key)
          THEN /\ data' = MapDelete(data, key)
               /\ lruList' = ListRemove(lruList, key)
               /\ UNCHANGED withTTL
          ELSE /\ lruList' = ListMoveToFront(lruList, key)
               /\ UNCHANGED <<data, withTTL>>

\* Delete(key) that reports a removal for every key
DeleteOkAlways(key) ==
  key = key

\* return value of Delete(key)
DeleteOk(key) ==
  key \in DOMAIN data

\* state change of Delete(key), under the lock
Delete(key) ==
  /\ mu = "free"
  /\ IF key \in DOMAIN data
     THEN /\ data' = MapDelete(data, key)
          /\ withTTL' = withTTL \ {key}
          /\ lruList' = ListRemove(lruList, key)
     ELSE UNCHANGED storeVars

\* GetAll(): snapshot key -> value
GetAll ==
  [k \in DOMAIN data |-> data[k].value]

\* cleanup(): the goroutine takes the lock; with an empty TTL set it unlocks
\* again and sleeps one second (no state change)
CleanupLock ==
  /\ cleanupPc = "idle"
  /\ mu = "free"
  /\ withTTL # {}
  /\ mu' = "cleanup"
  /\ cleanupPc' = "locked"
  /\ UNCHANGED <<data, lruList, withTTL>>

\* a sampling pass after which the goroutine sleeps with the lock held
CleanupPassKeepsLock(visited, timeLeft) ==
  /\ cleanupPc = "locked"
  /\ visited \subseteq withTTL
  /\ LET count      == Cardinality(withTTL)
         sampleSize == Min(20, count)
         removed    == { k \in visited : IsExpired(k) }
         expired    == Cardinality(removed)
         lotsOfExpired == sampleSize > 0 /\ 4 * expired > sampleSize
     IN  /\ data' = [x \in (DOMAIN data) \ removed |-> data[x]]
         /\ withTTL' = withTTL \ removed
         /\ lruList' = SelectSeq(lruList, LAMBDA x : x \notin removed)
         /\ IF lotsOfExpired /\ timeLeft
            THEN UNCHANGED <<mu, cleanupPc>>
            ELSE mu' = mu /\ cleanupPc' = "idle"

\* a sampling pass that counts the expired keys of the sample but removes none
CleanupPassCountsOnly(visited, timeLeft) ==
  /\ cleanupPc = "locked"
  /\ visited \subseteq withTTL
  /\ LET count      == Cardinality(withTTL)
         sampleSize == Min(20, count)
         removed    == { k \in visited : IsExpired(k) }
         expired    == Cardinality(removed)
         lotsOfExpired == sampleSize > 0 /\ 4 * expired > sampleSize
     IN  /\ UNCHANGED <<data, withTTL, lruList>>
         /\ IF lotsOfExpired /\ timeLeft
            THEN UNCHANGED <<mu, cleanupPc>>
            ELSE mu' = "free" /\ cleanupPc' = "idle"

\* a sampling pass whose inner loop has no break
CleanupPassNeverBreaks(visited, timeLeft) ==
  /\ cleanupPc = "locked"
  /\ visited \subseteq withTTL
  /\ LET removed == { k \in visited : IsExpired(k) }
     IN  /\ data' = [x \in (DOMAIN data) \ removed |-> data[x]]
         /\ withTTL' = withTTL \ removed
         /\ lruList' = SelectSeq(lruList, LAMBDA x : x \notin removed)
         /\ UNCHANGED <<mu, cleanupPc>>

\* a sampling pass that removes every sampled key, expired or not
CleanupPassRemovesSampled(visited, timeLeft) ==
  /\ cleanupPc = "locked"
  /\ visited \subseteq withTTL
  /\ LET count      == Cardinality(withTTL)
         sampleSize == Min(20, count)
         removed    == visited
         expired    == Cardinality(removed)
         lotsOfExpired == sampleSize > 0 /\ 4 * expired > sampleSize
     IN  /\ data' = [x \in (DOMAIN data) \ removed |-> data[x]]
         /\ withTTL' = withTTL \ removed
         /\ lruList' = SelectSeq(lruList, LAMBDA x : x \notin removed)
         /\ IF lotsOfExpired /\ timeLeft
            THEN UNCHANGED <<mu, cleanupPc>>
            ELSE mu' = "free" /\ cleanupPc' = "idle"

\* one sampling pass of the inner loop.  visited is the set of keys the
\* random indices hit before the 25 ms budget stopped the sample; timeLeft is
\* the outcome of time.Since(start) <= 25ms after the pass.
CleanupPass(visited, timeLeft) ==
  /\ cleanupPc = "locked"
  /\ visited \subseteq withTTL
  /\ LET count      == Cardinality(withTTL)
         sampleSize == Min(20, count)
         removed    == { k \in visited : IsExpired(k) }
         expired    == Cardinality(removed)
         \* float64(expired)/float64(sampleSize) > 0.25 (NaN compares false)
         lotsOfExpired == sampleSize > 0 /\ 4 * expired > sampleSize
     IN  /\ data' = [x \in (DOMAIN data) \ removed |-> data[x]]
         /\ withTTL' = withTTL \ removed
         /\ lruList' = SelectSeq(lruList, LAMBDA x : x \notin removed)
         /\ IF lotsOfExpired /\ timeLeft
            THEN UNCHANGED <<mu, cleanupPc>>
            ELSE mu' = "free" /\ cleanupPc' = "idle"

\* the wall clock advances
Tick ==
  /\ now < MaxTime
  /\ now' = now + 1

\* NewStore()
InitStore ==
  /\ data = << >>
  /\ lruList = << >>
  /\ withTTL = {}
  /\ mu = "free"
  /\ cleanupPc = "idle"

(***************************************************************************)
(* internal/cluster/hashslot.go                                            *)
(***************************************************************************)
SLOT_RANGE ==
  16384

RECURSIVE BitXor(_, _)
\* a ^ b on non-negative integers
BitXor(a, b) ==
  IF a = 0 THEN b
  ELSE IF b = 0 THEN a
  ELSE (((a % 2) + (b % 2)) % 2) + 2 * BitXor(a \div 2, b \div 2)

\* a 32-bit word is kept as <<high 16 bits, low 16 bits>>
Xor32(x, y) ==
  <<BitXor(x[1], y[1]), BitXor(x[2], y[2])>>

Shr32(x) ==
  <<x[1] \div 2, (x[2] \div 2) + (x[1] % 2) * 32768>>

\* the reflected IEEE polynomial 0xEDB88320
IEEE ==
  <<60856, 33568>>

RECURSIVE CrcBits(_, _)
CrcBits(crc, n) ==
  IF n = 0 THEN crc
  ELSE CrcBits(IF crc[2] % 2 = 1 THEN Xor32(Shr32(crc), IEEE) ELSE Shr32(crc), n - 1)

\* crc32.IEEETable: the 256 entries of the byte-wise table
IEEETable ==
  [b \in 0..255 |-> CrcBits(<<0, b>>, 8)]

\* x >> 8 of a 32-bit word
Shr32By8(x) ==
  <<x[1] \div 256, (x[2] \div 256) + (x[1] % 256) * 256>>

RECURSIVE CrcUpdate(_, _, _)
\* crc = tab[byte(crc)^v] ^ (crc >> 8) for every byte v
CrcUpdate(crc, bytes, i) ==
  IF i > Len(bytes) THEN crc
  ELSE CrcUpdate(Xor32(IEEETable[BitXor(crc[2] % 256, bytes[i])], Shr32By8(crc)),
                 bytes, i + 1)

\* crc32.ChecksumIEEE
ChecksumIEEE(bytes) ==
  Xor32(CrcUpdate(<<65535, 65535>>, bytes, 1), <<65535, 65535>>)

\* strings.Index(s, b) for a one-byte pattern: 0-based, -1 when absent
Index(s, b) ==
  IF \E i \in DOMAIN s : s[i] = b
  THEN (CHOOSE i \in DOMAIN s : s[i] = b /\ \A j \in 1..(i - 1) : s[j] # b) - 1
  ELSE -1

\* s[from:] and s[from:to] with Go's 0-based, end-exclusive bounds
Slice(s, from, to) ==
  SubSeq(s, from + 1, to)

\* CalculateSlot without hash tag support
CalculateSlotNoTag(key) ==
  ChecksumIEEE(key)[2] % SLOT_RANGE

\* CalculateSlot(key)
CalculateSlot(key) ==
  LET start == Index(key, 123)
      end   == IF start # -1 THEN Index(Slice(key, start + 1, Len(key)), 125) ELSE -1
      hashKey == IF start # -1 /\ end # -1
                 THEN Slice(key, start + 1, start + 1 + end)
                 ELSE key
      hashResult == ChecksumIEEE(hashKey)
  IN  \* hashResult % 16384: 2^16 is a multiple of 16384
      hashResult[2] % SLOT_RANGE

\* CalculateSlot of the keys of the model, computed once
SlotTable ==
  [k \in Keys |-> CalculateSlot(k)]

(***************************************************************************)
(* internal/cluster/manager.go                                             *)
(***************************************************************************)
\* Slot{Start: -1, End: -1}
Unassigned ==
  [Start |-> -1, End |-> -1]

\* &Node{ID, Slot{-1,-1}, Host, Port} with zero statistics
NewNode(host, port) ==
  [Slot |-> Unassigned, Host |-> host, Port |-> port, KeyCount |-> 0, ByteSize |-> 0]

\* NewManager(host, port): one node under a freshly generated id
NewManager(host, port) ==
  /\ self = 1
  /\ Nodes = <<NewNode(host, port)>>

\* InitializeCluster without the remainder rule for the last node
InitializeClusterNoRemainder(ns) ==
  LET n            == Len(ns)
      slotsPerNode == SLOT_RANGE \div n
      start(i)     == (i - 1) * slotsPerNode
      end(i)       == start(i) + slotsPerNode - 1
  IN  [i \in 1..n |-> [ns[i] EXCEPT !.Slot = [Start |-> start(i), End |-> end(i)]]]

\* InitializeCluster() applied to the nodes ns: ns is in sorted id order, so
\* the node at position i is nodeIDs[i-1] of the code
InitializeCluster(ns) ==
  LET n            == Len(ns)
      slotsPerNode == SLOT_RANGE \div n
      start(i)     == (i - 1) * slotsPerNode
      end(i)       == IF i = n THEN SLOT_RANGE - 1
                      ELSE start(i) + slotsPerNode - 1
  IN  [i \in 1..n |-> [ns[i] EXCEPT !.Slot = [Start |-> start(i), End |-> end(i)]]]

\* the nodes ns with node x put at position pos
InsertAt(ns, pos, x) ==
  SubSeq(ns, 1, pos - 1) \o <<x>> \o SubSeq(ns, pos, Len(ns))

\* AddNode that initializes whenever at least 3 nodes are known
AddNodeAtLeastThree(host, port) ==
  /\ Len(Nodes) < MaxNodes
  /\ \E pos \in 1..(Len(Nodes) + 1) :
       LET n1 == InsertAt(Nodes, pos, NewNode(host, port)) IN
       /\ Nodes' = IF Len(n1) >= 3 THEN InitializeCluster(n1) ELSE n1
       /\ self' = IF pos <= self THEN self + 1 ELSE self

\* AddNode(host, port): generateNodeID() yields a fresh random id, which can
\* sort at any position pos among the known ids
AddNode(host, port) ==
  /\ Len(Nodes) < MaxNodes
  /\ \E pos \in 1..(Len(Nodes) + 1) :
       LET n1 == InsertAt(Nodes, pos, NewNode(host, port)) IN
       /\ Nodes' = IF Len(n1) = 3 THEN InitializeCluster(n1) ELSE n1
       /\ self' = IF pos <= self THEN self + 1 ELSE self

\* slots looked up: the edge, middle and invalid slots of TestSlotRangeEdgeCases
\* and the boundaries of the three ranges
ProbeSlots ==
  { -1, 0, 5460, 5461, SLOT_RANGE \div 2, 10921, 10922, SLOT_RANGE - 1,
    SLOT_RANGE, SLOT_RANGE + 1000 }

\* range test that forgets the lower bound
InRangeNoLowerBound(slot, node) ==
  slot <= node.Slot.End

\* the slot lies in the node's range
InRange(slot, node) ==
  slot >= node.Slot.Start /\ slot <= node.Slot.End

\* GetNodeForSlots without the fallback to the current node: the empty set
\* stands for a nil result
GetNodeForSlotsNoFallback(slot) ==
  IF Len(Nodes) < 3
  THEN {self}
  ELSE { id \in DOMAIN Nodes : InRange(slot, Nodes[id]) }

\* GetNodeForSlots that treats a cluster of exactly 3 nodes as uninitialized
GetNodeForSlotsBelowFour(slot) ==
  IF Len(Nodes) < 4
  THEN {self}
  ELSE IF \E id \in DOMAIN Nodes : InRange(slot, Nodes[id])
       THEN { id \in DOMAIN Nodes : InRange(slot, Nodes[id]) }
       ELSE {self}

\* GetNodeForSlots(slot): the nodes the map iteration can return; the empty
\* set would be a nil result
GetNodeForSlots(slot) ==
  IF Len(Nodes) < 3
  THEN {self}
  ELSE IF \E id \in DOMAIN Nodes : InRange(slot, Nodes[id])
       THEN { id \in DOMAIN Nodes : InRange(slot, Nodes[id]) }
       ELSE {self}

\* statistics mutators, applied to the node map ns.  Manager.Node and
\* Nodes[Node.ID] are the same Node object.
IncrementKeyCount(ns) ==
  LET n1 == [ns EXCEPT ![self].KeyCount = @ + 1] IN
  IF self \in DOMAIN n1 THEN [n1 EXCEPT ![self].KeyCount = @ + 1] ELSE n1

DecrementKeyCount(ns) ==
  IF ns[self].KeyCount > 0
  THEN LET n1 == [ns EXCEPT ![self].KeyCount = @ - 1] IN
       IF self \in DOMAIN n1 /\ n1[self].KeyCount > 0
       THEN [n1 EXCEPT ![self].KeyCount = @ - 1]
       ELSE n1
  ELSE ns

AddByteSize(ns, keySize, valueSize) ==
  LET bytes == keySize + valueSize
      n1    == [ns EXCEPT ![self].ByteSize = @ + bytes]
  IN  IF self \in DOMAIN n1 THEN [n1 EXCEPT ![self].ByteSize = @ + bytes] ELSE n1

SubtractByteSize(ns, keySize, valueSize) ==
  LET bytes == keySize + valueSize
      n1    == [ns EXCEPT ![self].ByteSize = IF @ >= bytes THEN @ - bytes ELSE 0]
  IN  IF self \in DOMAIN n1
      THEN [n1 EXCEPT ![self].ByteSize = IF @ >= bytes THEN @ - bytes ELSE 0]
      ELSE n1

(***************************************************************************)
(* internal/wal: Writer.WriteCommand                                       *)
(***************************************************************************)
WalOutcomes ==
  { "ok", "write_err", "sync_err" }

\* WriteCommand that returns after file.Write, without file.Sync
WriteCommandNoSync(cmd, outcome) ==
  CASE outcome = "write_err" -> <<wal, durable, TRUE>>
    [] outcome = "sync_err"  -> <<Append(wal, cmd), durable, TRUE>>
    [] OTHER                 -> <<Append(wal, cmd), durable, FALSE>>

\* WriteCommand(cmd): file.Write then file.Sync.  Returns <<wal, durable, err>>.
WriteCommand(cmd, outcome) ==
  CASE outcome = "write_err" -> <<wal, durable, TRUE>>
    [] outcome = "sync_err"  -> <<Append(wal, cmd), durable, TRUE>>
    [] OTHER                 -> <<Append(wal, cmd), Len(wal) + 1, FALSE>>

(***************************************************************************)
(* internal/observer: Hub                                                  *)
(***************************************************************************)
\* UpdateMessage{Action, Key, Value}
UpdateMessage(action, key, value) ==
  [action |-> action, key |-> key, value |-> value]

\* ClusterStatsMessage (payload left out)
ClusterStatsMessage ==
  [action |-> "cluster_stats", key |-> << >>, value |-> << >>]

\* one client.WriteMessage(websocket.TextMessage, message) of Hub.Run
WriteMessage(msg, err) ==
  [msg |-> msg, err |-> err]

\* Hub.Run that writes a broadcast to one client only
HubBroadcastToOne(msg) ==
  /\ hubLog' = Append(hubLog, msg)
  /\ \E failing \in SUBSET clients :
       wsInbox' = [w \in WsConns |->
                     IF w \in clients /\ \A x \in clients : w <= x
                     THEN Append(wsInbox[w], WriteMessage(msg, w \in failing))
                     ELSE wsInbox[w]]
  /\ UNCHANGED clients

\* Hub.Run that leaves the loop over the clients at the first failed write
HubBroadcastStopsOnError(msg) ==
  /\ hubLog' = Append(hubLog, msg)
  /\ \E failing \in SUBSET clients :
       wsInbox' = [w \in WsConns |->
                     IF w \in clients /\ \A f \in failing : w <= f
                     THEN Append(wsInbox[w], WriteMessage(msg, w \in failing))
                     ELSE wsInbox[w]]
  /\ UNCHANGED clients

\* a send on h.broadcast meets the receive in Hub.Run, which writes the
\* message to every registered client; the writes to the clients in failing
\* return an error, which is logged
HubBroadcast(msg) ==
  /\ hubLog' = Append(hubLog, msg)
  /\ \E failing \in SUBSET clients :
       wsInbox' = [w \in WsConns |->
                     IF w \in clients
                     THEN Append(wsInbox[w], WriteMessage(msg, w \in failing))
                     ELSE wsInbox[w]]
  /\ UNCHANGED clients

(***************************************************************************)
(* internal/server: TCP command path                                       *)
(***************************************************************************)
NoReply ==
  [kind |-> "none", slot |-> -1, host |-> "", port |-> "", value |-> << >>, text |-> ""]

\* "+OK\r\n"
ReplyOK ==
  [NoReply EXCEPT !.kind = "OK"]

\* "-ERR <text>\r\n"
ReplyErr(text) ==
  [NoReply EXCEPT !.kind = "ERR", !.text = text]

\* "-MOVED <slot> <host>:<port>\r\n"
ReplyMoved(slot, host, port) ==
  [NoReply EXCEPT !.kind = "MOVED", !.slot = slot, !.host = host, !.port = port]

\* "<value>\r\n"
ReplyValue(value) ==
  [NoReply EXCEPT !.kind = "VALUE", !.value = value]

\* ":1\r\n" / ":0\r\n"
ReplyInt(n) ==
  [NoReply EXCEPT !.kind = "INT", !.slot = n]

\* a connection goroutine waiting in scanner.Scan()
IdleConn ==
  [pc |-> "idle", parts |-> << >>,
   oldValue |-> << >>, existsBefore |-> FALSE, deleted |-> FALSE, needsStats |-> FALSE,
   reply |-> NoReply,
   \* history of the current command
   logged |-> FALSE, walErr |-> FALSE, applied |-> FALSE, published |-> FALSE,
   \* the command was received with 3 or more nodes known
   route |-> FALSE]

\* no message at hand
NoMessage ==
  UpdateMessage("", << >>, << >>)

\* Hub.Run waits in select; no handler writes a reply; every subscriber reads
IdleHub ==
  [msg |-> NoMessage, todo |-> {}, cur |-> 0,
   replying |-> [w \in WsConns |-> NoMessage], blocked |-> {}]

ClosedWs ==
  [pc |-> "closed", msg |-> UpdateMessage("", << >>, << >>)]

\* command lines a client sends (already split by parseRedisCommand)
KeyCommands ==
  { <<"SET", k, v>> : k \in CmdKeys, v \in Values }
    \cup { <<"GET", k>> : k \in CmdKeys }
    \cup { <<"DEL", k>> : k \in CmdKeys }
    \cup { <<"SET", k>> : k \in CmdKeys }

MeetCommands ==
  { <<"CLUSTER", "MEET", h, p>> : h \in Hosts, p \in Ports }

isKeyBasedCommand(cmd) ==
  cmd \in { "SET", "GET", "DEL" }

\* checkSlotOwnership that treats a cluster of exactly 3 nodes as not initialized
checkSlotOwnershipAboveThree(key) ==
  IF Len(Nodes) <= 3
  THEN << >>
  ELSE LET slot == SlotTable[key]
           node == Nodes[self]
       IN  IF slot < node.Slot.Start \/ slot > node.Slot.End
           THEN key
           ELSE << >>

\* checkSlotOwnership that tests the lower end of the own range only
checkSlotOwnershipNoUpperBound(key) ==
  IF Len(Nodes) < 3
  THEN << >>
  ELSE LET slot == SlotTable[key]
           node == Nodes[self]
       IN  IF slot < node.Slot.Start
           THEN key
           ELSE << >>

\* checkSlotOwnership(key): the key when another node owns its slot, else ""
checkSlotOwnership(key) ==
  IF Len(Nodes) < 3
  THEN << >>
  ELSE LET slot == SlotTable[key]
           node == Nodes[self]
       IN  IF slot < node.Slot.Start \/ slot > node.Slot.End
           THEN key
           ELSE << >>

\* handleRedirect(key): the replies it can write
handleRedirect(key) ==
  LET slot == SlotTable[key] IN
  { ReplyMoved(slot, Nodes[o].Host, Nodes[o].Port) : o \in GetNodeForSlots(slot) }

\* the connection starts a new command
Begin(c, parts) ==
  [IdleConn EXCEPT !.pc = "done", !.parts = parts, !.route = Len(Nodes) >= 3]

\* handleConnection reads a line; handleCommand dispatches it
TcpReceive(c, parts) ==
  /\ tcp[c].pc = "idle"
  /\ IF parts[1] = "CLUSTER"
     THEN UNCHANGED issued
     ELSE issued < MaxCmds /\ issued' = issued + 1
  /\ LET cmd == parts[1] IN
     IF isKeyBasedCommand(cmd) /\ Len(parts) >= 2 /\ checkSlotOwnership(parts[2]) # << >>
     THEN /\ \E r \in handleRedirect(checkSlotOwnership(parts[2])) :
               tcp' = [tcp EXCEPT ![c] = [Begin(c, parts) EXCEPT !.reply = r]]
          /\ UNCHANGED clusterVars
     ELSE CASE cmd = "SET" ->
                 /\ tcp' = [tcp EXCEPT ![c] =
                      IF Len(parts) # 3
                      THEN [Begin(c, parts) EXCEPT
                              !.reply = ReplyErr("wrong number of arguments for 'SET'")]
                      ELSE [Begin(c, parts) EXCEPT !.pc = "wal"]]
                 /\ UNCHANGED clusterVars
            [] cmd = "GET" ->
                 /\ tcp' = [tcp EXCEPT ![c] =
                      IF Len(parts) # 2
                      THEN [Begin(c, parts) EXCEPT
                              !.reply = ReplyErr("wrong number of arguments for 'GET'")]
                      ELSE [Begin(c, parts) EXCEPT !.pc = "get"]]
                 /\ UNCHANGED clusterVars
            [] cmd = "DEL" ->
                 /\ tcp' = [tcp EXCEPT ![c] =
                      IF Len(parts) # 2
                      THEN [Begin(c, parts) EXCEPT
                              !.reply = ReplyErr("wrong number of arguments for 'DEL'")]
                      ELSE [Begin(c, parts) EXCEPT !.pc = "wal"]]
                 /\ UNCHANGED clusterVars
            [] cmd = "CLUSTER" ->
                 \* HandleCluster / handleClusterMeet
                 /\ AddNode(parts[3], parts[4])
                 /\ tcp' = [tcp EXCEPT ![c] = [Begin(c, parts) EXCEPT !.reply = ReplyOK]]
  /\ UNCHANGED <<storeVars, lockVars, now, apiVars, fnVars, taskVars, walVars, ws, hubVars, boots>>

\* the reply has been written; handleConnection returns to scanner.Scan()
TcpDone(c) ==
  /\ tcp[c].pc = "done"
  /\ tcp' = [tcp EXCEPT ![c] = IdleConn]
  /\ UNCHANGED <<clusterVars, storeVars, lockVars, now, apiVars, fnVars, taskVars, walVars, ws, hubVars, boots, issued>>

\* HandleSet / HandleDelete that log the WAL error and carry on
AfterWalIgnoresError(conn, res) ==
  [conn EXCEPT !.pc = "get", !.walErr = res[3],
               !.logged = (~res[3] /\ res[2] = Len(res[1]) /\ Len(res[1]) > 0
                           /\ res[1][Len(res[1])] = conn.parts)]

\* what HandleSet / HandleDelete do with the result of WriteCommand
AfterWal(conn, res) ==
  IF res[3]
  THEN [conn EXCEPT !.pc = "done", !.walErr = TRUE,
                    !.reply = ReplyErr("failed to write to WAL")]
  ELSE [conn EXCEPT !.pc = "get",
                    !.logged = (res[2] = Len(res[1]) /\ Len(res[1]) > 0
                                /\ res[1][Len(res[1])] = conn.parts)]

\* HandleSet / HandleDelete: write to the WAL first
TcpWal(c) ==
  /\ tcp[c].pc = "wal"
  /\ \E outcome \in WalOutcomes :
       LET res == WriteCommand(tcp[c].parts, outcome) IN
       /\ wal' = res[1]
       /\ durable' = res[2]
       /\ tcp' = [tcp EXCEPT ![c] = AfterWal(tcp[c], res)]
  /\ UNCHANGED <<clusterVars, storeVars, lockVars, now, apiVars, fnVars, taskVars, ws, hubVars, boots, issued>>

\* c.store.Get(k): the read of HandleGet, or the presence check of HandleSet
\* and HandleDelete
TcpGet(c) ==
  /\ tcp[c].pc = "get"
  /\ LET k == tcp[c].parts[2] IN
     /\ Get(k)
     /\ tcp' = [tcp EXCEPT ![c] =
          IF tcp[c].parts[1] = "GET"
          THEN [@ EXCEPT !.pc = "done",
                         !.reply = IF GetOk(k) THEN ReplyValue(GetValue(k))
                                   ELSE ReplyErr("key not found")]
          ELSE [@ EXCEPT !.pc = "apply",
                         !.oldValue = GetValue(k), !.existsBefore = GetOk(k)]]
  /\ UNCHANGED <<clusterVars, lockVars, now, apiVars, fnVars, taskVars, walVars, ws, hubVars, boots, issued>>

\* c.store.Set(k, v) / c.store.Delete(k)
TcpApply(c) ==
  /\ tcp[c].pc = "apply"
  /\ LET parts == tcp[c].parts IN
     IF parts[1] = "SET"
     THEN /\ Set(parts[2], parts[3])
          /\ tcp' = [tcp EXCEPT ![c] = [@ EXCEPT !.pc = "stats", !.applied = TRUE]]
     ELSE /\ Delete(parts[2])
          /\ tcp' = [tcp EXCEPT ![c] = [@ EXCEPT !.pc = "stats",
                                                 !.deleted = DeleteOk(parts[2]),
                                                 !.applied = DeleteOk(parts[2])]]
  /\ UNCHANGED <<clusterVars, lockVars, now, apiVars, fnVars, taskVars, walVars, ws, hubVars, boots, issued>>

\* the statistics update of HandleSet / HandleDelete, then the reply of
\* handleSetCommand / handleDeleteCommand
TcpStats(c) ==
  /\ tcp[c].pc = "stats"
  /\ LET conn  == tcp[c]
         parts == conn.parts
         k     == parts[2]
     IN  IF parts[1] = "SET"
         THEN /\ Nodes' = IF ~conn.existsBefore
                          THEN AddByteSize(IncrementKeyCount(Nodes), Len(k), Len(parts[3]))
                          ELSE AddByteSize(SubtractByteSize(Nodes, Len(k), Len(conn.oldValue)),
                                           Len(k), Len(parts[3]))
              /\ tcp' = [tcp EXCEPT ![c] =
                   [@ EXCEPT !.pc = "publish", !.reply = ReplyOK,
                             !.needsStats = Len(Nodes) > 1]]
         ELSE IF conn.deleted
              THEN /\ Nodes' = IF conn.existsBefore
                               THEN SubtractByteSize(DecrementKeyCount(Nodes),
                                                     Len(k), Len(conn.oldValue))
                               ELSE DecrementKeyCount(Nodes)
                   /\ tcp' = [tcp EXCEPT ![c] =
                        [@ EXCEPT !.pc = "publish", !.reply = ReplyInt(1),
                                  !.needsStats = Len(Nodes) > 1]]
              ELSE /\ UNCHANGED Nodes
                   /\ tcp' = [tcp EXCEPT ![c] = [@ EXCEPT !.pc = "done", !.reply = ReplyInt(0)]]
  /\ UNCHANGED <<self, storeVars, lockVars, now, apiVars, fnVars, taskVars, walVars, ws, hubVars, boots, issued>>

\* handler.hub.BroadcastMessage(UpdateMessage{...})
TcpPublish(c) ==
  /\ tcp[c].pc = "publish"
  /\ LET parts == tcp[c].parts IN
     HubBroadcast(IF parts[1] = "SET" THEN UpdateMessage("set", parts[2], parts[3])
                  ELSE UpdateMessage("del", parts[2], << >>))
  /\ tcp' = [tcp EXCEPT ![c] = [@ EXCEPT !.published = TRUE,
                                         !.pc = IF tcp[c].needsStats THEN "cluster_stats"
                                                ELSE "done"]]
  /\ UNCHANGED <<clusterVars, storeVars, lockVars, now, apiVars, fnVars, taskVars, walVars, ws, boots, issued>>

\* broadcastClusterStats(hub, store, clusterManager)
TcpPublishStats(c) ==
  /\ tcp[c].pc = "cluster_stats"
  /\ mu = "free"
  /\ HubBroadcast(ClusterStatsMessage)
  /\ tcp' = [tcp EXCEPT ![c] = [@ EXCEPT !.pc = "done"]]
  /\ UNCHANGED <<clusterVars, storeVars, lockVars, now, apiVars, fnVars, taskVars, walVars, ws, boots, issued>>

(***************************************************************************)
(* internal/server: WebSocket command path (handleWsConnection)            *)
(***************************************************************************)
\* upgrade, then hub.Register(ws)
WsConnect(w) ==
  /\ ws[w].pc = "closed"
  /\ ws' = [ws EXCEPT ![w] = [@ EXCEPT !.pc = "open"]]
  /\ clients' = clients \cup {w}
  /\ UNCHANGED <<wsInbox, hubLog, clusterVars, storeVars, lockVars, now, apiVars, fnVars, taskVars, walVars, tcp, boots, issued>>

\* case "SET": s.Set(cmd.Key, cmd.Value)
WsSet(w, key, value) ==
  /\ ws[w].pc = "open"
  /\ issued < MaxCmds
  /\ issued' = issued + 1
  /\ Set(key, value)
  /\ ws' = [ws EXCEPT ![w] = [@ EXCEPT !.pc = "publish",
                                       !.msg = UpdateMessage("set", key, value)]]
  /\ UNCHANGED <<clusterVars, lockVars, now, apiVars, fnVars, taskVars, walVars, tcp, hubVars, boots>>

\* case "DEL": s.Delete(cmd.Key)
WsDel(w, key) ==
  /\ ws[w].pc = "open"
  /\ issued < MaxCmds
  /\ issued' = issued + 1
  /\ Delete(key)
  /\ ws' = [ws EXCEPT ![w] = [@ EXCEPT !.pc = IF DeleteOk(key) THEN "publish" ELSE "open",
                                       !.msg = UpdateMessage("del", key, << >>)]]
  /\ UNCHANGED <<clusterVars, lockVars, now, apiVars, fnVars, taskVars, walVars, tcp, hubVars, boots>>

\* hub.BroadcastMessage(...) of the SET and DEL cases
WsPublish(w) ==
  /\ ws[w].pc = "publish"
  /\ HubBroadcast(ws[w].msg)
  /\ ws' = [ws EXCEPT ![w] = [@ EXCEPT !.pc = "open"]]
  /\ UNCHANGED <<clusterVars, storeVars, lockVars, now, apiVars, fnVars, taskVars, walVars, tcp, boots, issued>>

\* the read fails; the deferred hub.Unregister(ws) and ws.Close() run
WsClose(w) ==
  /\ ws[w].pc = "open"
  /\ ws' = [ws EXCEPT ![w] = [@ EXCEPT !.pc = "closed"]]
  /\ clients' = clients \ {w}
  /\ UNCHANGED <<wsInbox, hubLog, clusterVars, storeVars, lockVars, now, apiVars, fnVars, taskVars, walVars, tcp, boots, issued>>

(***************************************************************************)
(* Construction (cmd/reredis/main.go) and restart                          *)
(***************************************************************************)
Init ==
  /\ InitStore
  /\ now = 0
  /\ NewManager(SelfHost, SelfPort)
  /\ wal = << >>
  /\ durable = 0
  /\ tcp = [c \in TcpConns |-> IdleConn]
  /\ ws = [w \in WsConns |-> ClosedWs]
  /\ clients = {}
  /\ wsInbox = [w \in WsConns |-> << >>]
  /\ hubLog = << >>
  /\ boots = 0
  /\ issued = 0
  /\ InitApi
  /\ InitFn
  /\ InitTasks
  /\ peers = [n \in PeerPorts |-> [Nodes |-> <<NewNode(SelfHost, n)>>, self |-> 1]]
  /\ hubRun = IdleHub

\* the records of reredis.wal that survive a crash: all synced ones and
\* possibly some written after the last Sync
Survivors ==
  { SubSeq(wal, 1, m) : m \in durable..Len(wal) }

\* The process dies and main() runs again: a new manager, a new store and a
\* new hub; StartWithListener reopens reredis.wal for appending and starts
\* accepting connections.
Restart ==
  /\ boots < MaxBoots
  /\ boots' = boots + 1
  /\ \E w \in Survivors :
       /\ wal' = w
       /\ durable' = Len(w)
  /\ data' = << >>
  /\ lruList' = << >>
  /\ withTTL' = {}
  /\ mu' = "free"
  /\ cleanupPc' = "idle"
  /\ self' = 1
  /\ Nodes' = <<NewNode(SelfHost, SelfPort)>>
  /\ tcp' = [c \in TcpConns |-> IdleConn]
  /\ ws' = [w \in WsConns |-> ClosedWs]
  /\ clients' = {}
  /\ wsInbox' = [w \in WsConns |-> << >>]
  /\ hubLog' = << >>
  /\ UNCHANGED <<now, issued, apiVars, fnVars, taskVars>>

(***************************************************************************)
(* The store driven through its API (as the store tests do)                *)
(***************************************************************************)
nonStoreVars ==
  <<Nodes, self, wal, durable, tcp, ws, clients, wsInbox, hubLog, boots, issued, fnVars, taskVars>>


ApiSet ==
  \E k \in Keys, v \in Values :
    Set(k, v) /\ UNCHANGED <<mu, cleanupPc, now, nonStoreVars, apiVars>>

ApiSetWithTTL ==
  \E k \in Keys, v \in Values, ttl \in 0..MaxTTL :
    SetWithTTL(k, v, ttl) /\ UNCHANGED <<mu, cleanupPc, now, nonStoreVars, apiVars>>

ApiGet ==
  \E k \in Keys :
    Get(k) /\ UNCHANGED <<mu, cleanupPc, now, nonStoreVars, apiVars>>

ApiDelete ==
  \E k \in Keys :
    Delete(k) /\ UNCHANGED <<mu, cleanupPc, now, nonStoreVars, apiVars>>

CleanupStart ==
  CleanupLock /\ UNCHANGED <<now, nonStoreVars, apiVars>>

Cleanup ==
  \E visited \in SUBSET Keys, timeLeft \in BOOLEAN :
    CleanupPass(visited, timeLeft) /\ UNCHANGED <<now, nonStoreVars, apiVars>>

ClockTick ==
  Tick /\ UNCHANGED <<storeVars, lockVars, nonStoreVars, apiVars>>

StoreNext ==
  \/ ApiSet
  \/ ApiSetWithTTL
  \/ ApiGet
  \/ ApiDelete
  \/ CleanupStart
  \/ Cleanup
  \/ ClockTick

StoreSpec ==
  Init /\ [][StoreNext]_vars


(***************************************************************************)
(* The store driven by a caller that keeps track of the order in which it  *)
(* touched the keys (store tests, "LRU eviction")                          *)
(***************************************************************************)
\* the order r after a touch of key k
Touch(r, k) ==
  <<k>> \o SelectSeq(r, LAMBDA x : x # k)

\* the keys of order r that the map d holds
Stored(r, d) ==
  SelectSeq(r, LAMBDA x : x \in DOMAIN d)

\* Set / SetWithTTL of key k finds the store full and k absent
FullInsert(k) ==
  k \notin DOMAIN data /\ Cardinality(DOMAIN data) = maxSize

LruSet ==
  \E k \in Keys, v \in Values :
    /\ Set(k, v)
    /\ recency' = Stored(Touch(recency, k), data')
    /\ evicted' = IF FullInsert(k) THEN (DOMAIN data) \ (DOMAIN data') ELSE {}
    /\ UNCHANGED <<lapsed, cleared, probed, mu, cleanupPc, now, nonStoreVars>>

LruSetWithTTL ==
  \E k \in Keys, v \in Values, ttl \in 0..MaxTTL :
    /\ SetWithTTL(k, v, ttl)
    /\ recency' = Stored(Touch(recency, k), data')
    /\ evicted' = IF FullInsert(k) THEN (DOMAIN data) \ (DOMAIN data') ELSE {}
    /\ UNCHANGED <<lapsed, cleared, probed, mu, cleanupPc, now, nonStoreVars>>

LruGet ==
  \E k \in Keys :
    /\ Get(k)
    /\ recency' = Stored(IF GetOk(k) THEN Touch(recency, k) ELSE recency, data')
    /\ evicted' = {}
    /\ UNCHANGED <<lapsed, cleared, probed, mu, cleanupPc, now, nonStoreVars>>

LruDelete ==
  \E k \in Keys :
    /\ Delete(k)
    /\ recency' = Stored(recency, data')
    /\ evicted' = {}
    /\ UNCHANGED <<lapsed, cleared, probed, mu, cleanupPc, now, nonStoreVars>>

LruCleanup ==
  \E visited \in SUBSET Keys, timeLeft \in BOOLEAN :
    /\ CleanupPass(visited, timeLeft)
    /\ recency' = Stored(recency, data')
    /\ UNCHANGED <<evicted, lapsed, cleared, probed, now, nonStoreVars>>

LruNext ==
  \/ LruSet
  \/ LruSetWithTTL
  \/ LruGet
  \/ LruDelete
  \/ CleanupStart
  \/ LruCleanup
  \/ ClockTick

LruSpec ==
  Init /\ [][LruNext]_vars


(***************************************************************************)
(* The store driven by a caller that keeps track of the expirations it set *)
(* (store tests, "TTL lazy expiration on Get", "TTL removal on regular     *)
(* Set")                                                                   *)
(***************************************************************************)
\* cleared after a Set / SetWithTTL of key k that stores expiration e (Nil for
\* Set): k remembers the expiration a Set replaced, and a key evicted by the
\* insertion is forgotten
ClearedAfterSet(k, e, d1) ==
  [x \in Keys |->
     IF x = k
     THEN IF e # Nil THEN Nil
          ELSE IF k \in DOMAIN data /\ data[k].expiration # Nil
               THEN data[k].expiration
               ELSE cleared[k]
     ELSE IF FullInsert(k) /\ x \notin DOMAIN d1 THEN Nil ELSE cleared[x]]

TtlSet ==
  \E k \in Keys, v \in Values :
    /\ Set(k, v)
    /\ lapsed' = lapsed \ {k}
    /\ cleared' = ClearedAfterSet(k, Nil, data')
    /\ probed' = { x \in probed : cleared'[x] # Nil }
    /\ UNCHANGED <<recency, evicted, mu, cleanupPc, now, nonStoreVars>>

TtlSetWithTTL ==
  \E k \in Keys, v \in Values, ttl \in 0..MaxTTL :
    /\ SetWithTTL(k, v, ttl)
    /\ lapsed' = lapsed \ {k}
    /\ cleared' = ClearedAfterSet(k, now + ttl, data')
    /\ probed' = { x \in probed : cleared'[x] # Nil }
    /\ UNCHANGED <<recency, evicted, mu, cleanupPc, now, nonStoreVars>>

TtlGet ==
  \E k \in Keys :
    /\ Get(k)
    /\ lapsed' = IF IsExpired(k) THEN lapsed \cup {k} ELSE lapsed
    /\ probed' = IF GetOk(k) /\ cleared[k] # Nil /\ cleared[k] < now
                 THEN probed \cup {k}
                 ELSE probed
    /\ UNCHANGED <<cleared, recency, evicted, mu, cleanupPc, now, nonStoreVars>>

TtlDelete ==
  \E k \in Keys :
    /\ Delete(k)
    /\ cleared' = [cleared EXCEPT ![k] = Nil]
    /\ probed' = probed \ {k}
    /\ UNCHANGED <<lapsed, recency, evicted, mu, cleanupPc, now, nonStoreVars>>

TtlNext ==
  \/ TtlSet
  \/ TtlSetWithTTL
  \/ TtlGet
  \/ TtlDelete
  \/ CleanupStart
  \/ Cleanup
  \/ ClockTick

TtlSpec ==
  Init /\ [][TtlNext]_vars


(***************************************************************************)
(* CalculateSlot applied to keys with and without braces                   *)
(***************************************************************************)
\* the bytes 'a', '{' and '}'
TagBytes ==
  { 97, 123, 125 }

\* keys of 1 to 4 bytes
TagKeys ==
  UNION { [1..n -> TagBytes] : n \in 1..4 }

\* prefixes, tags and suffixes: the empty string and the one-byte strings
Bodies ==
  { << >> } \cup [1..1 -> TagBytes]

\* the key x{t}y
Tagged(x, t, y) ==
  x \o <<123>> \o t \o <<125>> \o y

\* the first call of a test: CalculateSlot(key) for one key
SlotOfKey ==
  \E key \in TagKeys :
    /\ hashIn = << >>
    /\ hashIn' = <<key>>
    /\ hashOut' = <<CalculateSlot(key)>>
    /\ UNCHANGED <<storeVars, lockVars, now, clusterVars, walVars, connVars, hubVars,
                   boots, issued, apiVars, taskVars, cmds, file, torn, readLog>>

\* the first calls of a test: CalculateSlot of two keys x{t}y and a{t}b that
\* carry the same tag
SlotOfTaggedPair ==
  \E x \in Bodies, t \in Bodies, y \in Bodies, a \in Bodies, b \in Bodies :
    /\ hashIn = << >>
    /\ hashIn' = <<x, t, y, a, b>>
    /\ hashOut' = <<CalculateSlot(Tagged(x, t, y)), CalculateSlot(Tagged(a, t, b))>>
    /\ UNCHANGED <<storeVars, lockVars, now, clusterVars, walVars, connVars, hubVars,
                   boots, issued, apiVars, taskVars, cmds, file, torn, readLog>>

HashNext ==
  \/ SlotOfKey
  \/ SlotOfTaggedPair

HashSpec ==
  Init /\ [][HashNext]_vars


(***************************************************************************)
(* internal/wal: encoder.go, the Writer and reader.go, on the bytes of the *)
(* log file                                                                *)
(***************************************************************************)
\* records a test writes
MaxRecords ==
  2

\* "\r\n"
CRLF ==
  <<13, 10>>

RECURSIVE Itoa(_)
\* strconv.Itoa(n) for n >= 0
Itoa(n) ==
  IF n < 10 THEN <<48 + n>> ELSE Itoa(n \div 10) \o <<48 + (n % 10)>>

\* EncodeBulkString(s): "$" + length + "\r\n" + s + "\r\n"
EncodeBulkString(s) ==
  <<36>> \o Itoa(Len(s)) \o CRLF \o s \o CRLF

RECURSIVE EncodeEach(_, _)
\* the loop of EncodeArray from element i on
EncodeEach(strings, i) ==
  IF i > Len(strings) THEN << >>
  ELSE EncodeBulkString(strings[i]) \o EncodeEach(strings, i + 1)

\* the first line of EncodeArray(strings): "*" + count + "\r\n"
ArrayHeader(strings) ==
  <<42>> \o Itoa(Len(strings)) \o CRLF

\* EncodeArray(strings)
EncodeArray(strings) ==
  ArrayHeader(strings) \o EncodeEach(strings, 1)

RECURSIVE EncodeAll(_, _)
\* the bytes that WriteCommand has appended for the commands cs[i..]
EncodeAll(cs, i) ==
  IF i > Len(cs) THEN << >>
  ELSE EncodeArray(cs[i]) \o EncodeAll(cs, i + 1)

\* bufio.ScanLines' dropCR
DropCR(line) ==
  IF Len(line) > 0 /\ line[Len(line)] = 13
  THEN SubSeq(line, 1, Len(line) - 1)
  ELSE line

\* scanner.Scan() with bufio.ScanLines on the unread bytes buf: the next line
\* without its "\n" and one trailing "\r"; at the end of the input a last
\* line without "\n" is returned too
Scan(buf) ==
  IF buf = << >>
  THEN [ok |-> FALSE, text |-> << >>, rest |-> << >>]
  ELSE LET i == Index(buf, 10) IN
       IF i = -1
       THEN [ok |-> TRUE, text |-> DropCR(buf), rest |-> << >>]
       ELSE [ok |-> TRUE, text |-> DropCR(SubSeq(buf, 1, i)),
             rest |-> SubSeq(buf, i + 2, Len(buf))]

RECURSIVE DigitsValue(_, _)
\* the value of the decimal digits d[1..n]
DigitsValue(d, n) ==
  IF n = 0 THEN 0 ELSE 10 * DigitsValue(d, n - 1) + (d[n] - 48)

\* strconv.Atoi(s): an optional sign followed by at least one digit
Atoi(s) ==
  LET signed == Len(s) > 0 /\ s[1] \in { 43, 45 }
      d      == IF signed THEN SubSeq(s, 2, Len(s)) ELSE s
  IN  IF Len(d) = 0 \/ \E i \in DOMAIN d : d[i] < 48 \/ d[i] > 57
      THEN [ok |-> FALSE, n |-> 0]
      ELSE [ok |-> TRUE,
            n  |-> IF signed /\ s[1] = 45 THEN 0 - DigitsValue(d, Len(d))
                   ELSE DigitsValue(d, Len(d))]

\* strings.HasPrefix(line, one byte)
HasPrefix(line, b) ==
  Len(line) > 0 /\ line[1] = b

\* Reader.parseBulkString on the unread bytes buf
parseBulkString(buf) ==
  LET head   == Scan(buf)
      length == Atoi(SubSeq(head.text, 2, Len(head.text)))
      body   == Scan(head.rest)
  IN  IF ~head.ok THEN [err |-> TRUE, data |-> << >>, rest |-> head.rest]
      ELSE IF ~HasPrefix(head.text, 36) THEN [err |-> TRUE, data |-> << >>, rest |-> head.rest]
      ELSE IF ~length.ok THEN [err |-> TRUE, data |-> << >>, rest |-> head.rest]
      ELSE IF ~body.ok THEN [err |-> TRUE, data |-> << >>, rest |-> body.rest]
      ELSE IF Len(body.text) # length.n THEN [err |-> TRUE, data |-> << >>, rest |-> body.rest]
      ELSE [err |-> FALSE, data |-> body.text, rest |-> body.rest]

RECURSIVE parseBulkStrings(_, _, _)
\* the loop of parseArray: count more bulk strings after the ones in result
parseBulkStrings(buf, count, result) ==
  IF count = 0
  THEN [kind |-> "entry", command |-> result, rest |-> buf]
  ELSE LET b == parseBulkString(buf) IN
       IF b.err
       THEN [kind |-> "error", command |-> << >>, rest |-> b.rest]
       ELSE parseBulkStrings(b.rest, count - 1, Append(result, b.data))

\* Reader.parseArray on the unread bytes buf; make([]string, count) panics
\* for a negative count
parseArray(buf) ==
  LET head  == Scan(buf)
      count == Atoi(SubSeq(head.text, 2, Len(head.text)))
  IN  IF ~head.ok THEN [kind |-> "eof", command |-> << >>, rest |-> head.rest]
      ELSE IF ~HasPrefix(head.text, 42) THEN [kind |-> "error", command |-> << >>, rest |-> head.rest]
      ELSE IF ~count.ok THEN [kind |-> "error", command |-> << >>, rest |-> head.rest]
      ELSE IF count.n < 0 THEN [kind |-> "panic", command |-> << >>, rest |-> head.rest]
      ELSE parseBulkStrings(head.rest, count.n, << >>)

\* Reader.ReadEntry
ReadEntry(buf) ==
  parseArray(buf)

RECURSIVE ReadAll(_, _)
\* ReadEntry until it returns something else than an entry
ReadAll(buf, entries) ==
  LET e == ReadEntry(buf) IN
  IF e.kind = "entry"
  THEN ReadAll(e.rest, Append(entries, e.command))
  ELSE [entries |-> entries, end |-> e.kind]

\* the strings of the commands: "", "a", "\r" and "\n"
Strings ==
  { << >>, <<97>>, <<13>>, <<10>> }

\* commands of one or two strings
CodecCommands ==
  UNION { [1..n -> Strings] : n \in 1..2 }

\* Writer.WriteCommand(cmd): Write(EncodeArray(cmd)), then Sync
CodecWrite ==
  \E cmd \in CodecCommands :
    /\ Len(cmds) < MaxRecords
    /\ torn = NotTorn
    /\ readLog = NotRead
    /\ cmds' = Append(cmds, cmd)
    /\ file' = file \o EncodeArray(cmd)
    /\ UNCHANGED <<storeVars, lockVars, now, clusterVars, walVars, connVars, hubVars,
                   boots, issued, apiVars, taskVars, hashIn, hashOut, torn, readLog>>

\* the process dies inside the Write of the last command: the file keeps the
\* records before it and the first kept bytes of its encoding
CodecCrash ==
  /\ cmds # << >>
  /\ torn = NotTorn
  /\ readLog = NotRead
  /\ LET complete == Len(cmds) - 1
         encoded  == EncodeArray(cmds[Len(cmds)])
     IN  \E kept \in 1..(Len(encoded) - 1) :
           /\ torn' = <<complete, kept>>
           /\ file' = EncodeAll(SubSeq(cmds, 1, complete), 1) \o SubSeq(encoded, 1, kept)
  /\ UNCHANGED <<storeVars, lockVars, now, clusterVars, walVars, connVars, hubVars,
                 boots, issued, apiVars, taskVars, hashIn, hashOut, cmds, readLog>>

\* a reader is opened on the file and ReadEntry is called until it returns
\* no entry
CodecRead ==
  /\ readLog = NotRead
  /\ readLog' = ReadAll(file, << >>)
  /\ UNCHANGED <<storeVars, lockVars, now, clusterVars, walVars, connVars, hubVars,
                 boots, issued, apiVars, taskVars, hashIn, hashOut, cmds, file, torn>>

CodecNext ==
  \/ CodecWrite
  \/ CodecCrash
  \/ CodecRead

CodecSpec ==
  Init /\ [][CodecNext]_vars

(***************************************************************************)
(* The cluster manager driven by CLUSTER MEET                              *)
(***************************************************************************)
ClusterMeet ==
  \E host \in Hosts, port \in Ports :
    /\ AddNode(host, port)
    /\ UNCHANGED <<storeVars, lockVars, now, apiVars, fnVars, taskVars, walVars, connVars, hubVars, boots, issued>>

ClusterNext ==
  ClusterMeet

ClusterSpec ==
  Init /\ [][ClusterNext]_vars

(***************************************************************************)
(* The server: TCP and WebSocket clients, CLUSTER MEET, crash and restart  *)
(***************************************************************************)
Receive ==
  \E parts \in KeyCommands : TcpReceive(ClientConn, parts)

Meet ==
  \E parts \in MeetCommands : TcpReceive(AdminConn, parts)

WalStep ==
  \E c \in TcpConns : TcpWal(c)

GetStep ==
  \E c \in TcpConns : TcpGet(c)

ApplyStep ==
  \E c \in TcpConns : TcpApply(c)

StatsStep ==
  \E c \in TcpConns : TcpStats(c)

PublishStep ==
  \E c \in TcpConns : TcpPublish(c)

PublishStatsStep ==
  \E c \in TcpConns : TcpPublishStats(c)

WsOpen ==
  \E w \in {WsClient} : WsConnect(w)

WsSetStep ==
  \E w \in {WsClient}, k \in CmdKeys, v \in Values : WsSet(w, k, v)

WsDelStep ==
  \E w \in {WsClient}, k \in CmdKeys : WsDel(w, k)

WsPublishStep ==
  \E w \in {WsClient} : WsPublish(w)

WsCloseStep ==
  \E w \in {WsClient} : WsClose(w)

DoneStep ==
  \E c \in TcpConns : TcpDone(c)

\* one node serving TCP and WebSocket clients, with crashes and restarts
CommandNext ==
  \/ Receive
  \/ WalStep
  \/ GetStep
  \/ ApplyStep
  \/ StatsStep
  \/ PublishStep
  \/ DoneStep
  \/ WsOpen
  \/ WsSetStep
  \/ WsDelStep
  \/ WsPublishStep
  \/ WsCloseStep
  \/ Restart

CommandSpec ==
  Init /\ [][CommandNext]_vars

\* TCP clients and CLUSTER MEET: the node joins a cluster while it serves
RouteNext ==
  \/ Receive
  \/ Meet
  \/ WalStep
  \/ GetStep
  \/ ApplyStep
  \/ StatsStep
  \/ PublishStep
  \/ PublishStatsStep
  \/ DoneStep

RouteSpec ==
  Init /\ [][RouteNext]_vars

(***************************************************************************)
(* The statistics mutators run by concurrent connection goroutines         *)
(* (manager.go has no lock: every read and write of a counter is a step)   *)
(***************************************************************************)
\* Manager methods entered by all goroutines together
MaxCalls ==
  3
\* len(k) + len(v) for the keys and values of the model: 1 + 1
ByteSizes ==
  { 2 }

\* position of goroutine t after the update of m.Node: the update of
\* m.Nodes[m.Node.ID] (the same object) follows, then the method returns
AfterRound(t, again) ==
  IF mgr[t].round = 1
  THEN [mgr[t] EXCEPT !.pc = again, !.round = 2]
  ELSE IdleTask

statsFrame ==
  UNCHANGED <<storeVars, lockVars, now, self, walVars, connVars, hubVars, boots, issued,
              apiVars, fnVars, appender, lockq, page, peers, hubRun>>

\* goroutine t enters a method and stands at its first statement
Enter(t, at, b) ==
  /\ calls < MaxCalls
  /\ calls' = calls + 1
  /\ mgr' = [mgr EXCEPT ![t] = [IdleTask EXCEPT !.pc = at, !.round = 1, !.bytes = b]]
  /\ UNCHANGED Nodes
  /\ statsFrame

\* goroutine t reads or tests a field and moves on
Read(t, to) ==
  /\ mgr' = [mgr EXCEPT ![t] = to]
  /\ UNCHANGED <<Nodes, calls>>
  /\ statsFrame

\* goroutine t writes a field of the self node and moves on
Write(t, nodes, again) ==
  /\ Nodes' = nodes
  /\ mgr' = [mgr EXCEPT ![t] = AfterRound(t, again)]
  /\ UNCHANGED calls
  /\ statsFrame

\* a goroutine enters one of the four mutators
CallIncrementKeyCount(t) ==
  /\ mgr[t].pc = "idle"
  /\ Enter(t, "inc_load", 0)

CallDecrementKeyCount(t) ==
  /\ mgr[t].pc = "idle"
  /\ Enter(t, "dec_check", 0)

CallAddByteSize(t) ==
  /\ mgr[t].pc = "idle"
  /\ \E b \in ByteSizes : Enter(t, "add_load", b)

CallSubtractByteSize(t) ==
  /\ mgr[t].pc = "idle"
  /\ \E b \in ByteSizes : Enter(t, "sub_check", b)

\* node.KeyCount++ : load, then store
IncLoad(t) ==
  /\ mgr[t].pc = "inc_load"
  /\ Read(t, [mgr[t] EXCEPT !.pc = "inc_store", !.reg = Nodes[self].KeyCount])

IncStore(t) ==
  /\ mgr[t].pc = "inc_store"
  /\ Write(t, [Nodes EXCEPT ![self].KeyCount = mgr[t].reg + 1], "inc_load")

\* if node.KeyCount > 0 { node.KeyCount-- } : test, load, store; a failed
\* test leaves the method (the second update is nested in the first)
DecCheck(t) ==
  /\ mgr[t].pc = "dec_check"
  /\ Read(t, IF Nodes[self].KeyCount > 0
             THEN [mgr[t] EXCEPT !.pc = "dec_load"]
             ELSE IdleTask)

DecLoad(t) ==
  /\ mgr[t].pc = "dec_load"
  /\ Read(t, [mgr[t] EXCEPT !.pc = "dec_store", !.reg = Nodes[self].KeyCount])

DecStore(t) ==
  /\ mgr[t].pc = "dec_store"
  /\ Write(t, [Nodes EXCEPT ![self].KeyCount = mgr[t].reg - 1], "dec_check")

\* node.ByteSize += bytes : load, then store
AddLoad(t) ==
  /\ mgr[t].pc = "add_load"
  /\ Read(t, [mgr[t] EXCEPT !.pc = "add_store", !.reg = Nodes[self].ByteSize])

AddStore(t) ==
  /\ mgr[t].pc = "add_store"
  /\ Write(t, [Nodes EXCEPT ![self].ByteSize = mgr[t].reg + mgr[t].bytes], "add_load")

\* if node.ByteSize >= bytes { node.ByteSize -= bytes } else { node.ByteSize = 0 }
SubCheck(t) ==
  /\ mgr[t].pc = "sub_check"
  /\ Read(t, IF Nodes[self].ByteSize >= mgr[t].bytes
             THEN [mgr[t] EXCEPT !.pc = "sub_load"]
             ELSE [mgr[t] EXCEPT !.pc = "sub_zero"])

SubLoad(t) ==
  /\ mgr[t].pc = "sub_load"
  /\ Read(t, [mgr[t] EXCEPT !.pc = "sub_store", !.reg = Nodes[self].ByteSize])

SubStore(t) ==
  /\ mgr[t].pc = "sub_store"
  /\ Write(t, [Nodes EXCEPT ![self].ByteSize = mgr[t].reg - mgr[t].bytes], "sub_check")

SubZero(t) ==
  /\ mgr[t].pc = "sub_zero"
  /\ Write(t, [Nodes EXCEPT ![self].ByteSize = 0], "sub_check")

StatsNext ==
  \E t \in MgrTasks :
    \/ CallIncrementKeyCount(t)
    \/ CallDecrementKeyCount(t)
    \/ CallAddByteSize(t)
    \/ CallSubtractByteSize(t)
    \/ IncLoad(t)
    \/ IncStore(t)
    \/ DecCheck(t)
    \/ DecLoad(t)
    \/ DecStore(t)
    \/ AddLoad(t)
    \/ AddStore(t)
    \/ SubCheck(t)
    \/ SubLoad(t)
    \/ SubStore(t)
    \/ SubZero(t)

StatsSpec ==
  Init /\ [][StatsNext]_vars

(***************************************************************************)
(* CLUSTER MEET on one connection while another connection looks up slot   *)
(* owners (manager.go has no lock: AddNode and InitializeCluster write the *)
(* map and the ranges node by node)                                        *)
(***************************************************************************)
\* slots the client's keys hash to
LookupSlots ==
  { 0, 8047, SLOT_RANGE - 1 }

meetFrame ==
  UNCHANGED <<storeVars, lockVars, now, walVars, connVars, hubVars, boots, issued,
              apiVars, fnVars, calls, appender, lockq, page, peers, hubRun>>

\* AddNode, lines 44-50: the new node enters the map; with 3 nodes known
\* InitializeCluster follows
MeetInsert(t) ==
  /\ mgr[t].pc = "idle"
  /\ Len(Nodes) < MaxNodes
  /\ \E host \in Hosts, port \in Ports, pos \in 1..(Len(Nodes) + 1) :
       /\ Nodes' = InsertAt(Nodes, pos, NewNode(host, port))
       /\ self' = IF pos <= self THEN self + 1 ELSE self
  /\ mgr' = [mgr EXCEPT ![t] = IF Len(Nodes) + 1 = 3
                                THEN [IdleTask EXCEPT !.pc = "init", !.round = 1]
                                ELSE IdleTask]
  /\ meetFrame

\* InitializeCluster, one iteration of the loop over the sorted node ids
MeetAssign(t) ==
  /\ mgr[t].pc = "init"
  /\ LET i == mgr[t].round IN
     /\ Nodes' = [Nodes EXCEPT ![i].Slot = InitializeCluster(Nodes)[i].Slot]
     /\ mgr' = [mgr EXCEPT ![t] = IF i = Len(Nodes) THEN IdleTask
                                   ELSE [@ EXCEPT !.round = i + 1]]
  /\ UNCHANGED self
  /\ meetFrame

\* checkSlotOwnership calls GetNodeForSlots(slot)
LookupBegin(t) ==
  /\ mgr[t].pc = "idle"
  /\ \E slot \in LookupSlots :
       mgr' = [mgr EXCEPT ![t] = [IdleTask EXCEPT !.pc = "lookup_len", !.slot = slot]]
  /\ UNCHANGED clusterVars
  /\ meetFrame

\* if len(m.Nodes) < 3 { return m.Node }
LookupLen(t) ==
  /\ mgr[t].pc = "lookup_len"
  /\ mgr' = [mgr EXCEPT ![t] = IF Len(Nodes) < 3
                                THEN [@ EXCEPT !.pc = "lookup_ret", !.reg = self]
                                ELSE [@ EXCEPT !.pc = "lookup_scan"]]
  /\ UNCHANGED clusterVars
  /\ meetFrame

\* the loop over m.Nodes and the fallback to m.Node
LookupScan(t) ==
  /\ mgr[t].pc = "lookup_scan"
  /\ \E owner \in (IF \E id \in DOMAIN Nodes : InRange(mgr[t].slot, Nodes[id])
                   THEN { id \in DOMAIN Nodes : InRange(mgr[t].slot, Nodes[id]) }
                   ELSE {self}) :
       mgr' = [mgr EXCEPT ![t] = [@ EXCEPT !.pc = "lookup_ret", !.reg = owner]]
  /\ UNCHANGED clusterVars
  /\ meetFrame

\* the caller has compared the owner with m.Node
LookupReturn(t) ==
  /\ mgr[t].pc = "lookup_ret"
  /\ mgr' = [mgr EXCEPT ![t] = IdleTask]
  /\ UNCHANGED clusterVars
  /\ meetFrame

\* the administrator's connection runs CLUSTER MEET, the client's connection
\* key commands
MeetNext ==
  \/ MeetInsert(AdminConn)
  \/ MeetAssign(AdminConn)
  \/ LookupBegin(ClientConn)
  \/ LookupLen(ClientConn)
  \/ LookupScan(ClientConn)
  \/ LookupReturn(ClientConn)

MeetSpec ==
  Init /\ [][MeetNext]_vars

(***************************************************************************)
(* Writer.WriteCommand called by concurrent connection goroutines (one     *)
(* Writer, no lock: file.Write and file.Sync are two steps)                *)
(***************************************************************************)
appendFrame ==
  UNCHANGED <<storeVars, lockVars, now, clusterVars, connVars, hubVars, boots, issued,
              apiVars, fnVars, mgr, lockq, page, peers, hubRun>>

\* HandleSet / HandleDelete of connection c calls c.walWriter.WriteCommand(parts)
AppendBegin(c) ==
  /\ appender[c].pc = "idle"
  /\ calls < MaxCalls
  /\ calls' = calls + 1
  /\ \E k \in CmdKeys, v \in Values :
       \E parts \in {<<"SET", k, v>>, <<"DEL", k>>} :
         appender' = [appender EXCEPT ![c] = [pc |-> "write", cmd |-> parts]]
  /\ UNCHANGED walVars
  /\ appendFrame

\* w.file.Write(encoded): the whole record is appended (O_APPEND), or the
\* write fails and WriteCommand returns the error
AppendWrite(c) ==
  /\ appender[c].pc = "write"
  /\ \/ /\ wal' = Append(wal, appender[c].cmd)
        /\ appender' = [appender EXCEPT ![c] = [@ EXCEPT !.pc = "sync"]]
     \/ /\ wal' = wal
        /\ appender' = [appender EXCEPT ![c] = IdleAppender]
  /\ UNCHANGED <<durable, calls>>
  /\ appendFrame

\* w.file.Sync(): everything written to the file so far is on disk, or the
\* sync fails
AppendSync(c) ==
  /\ appender[c].pc = "sync"
  /\ \/ durable' = Len(wal)
     \/ durable' = durable
  /\ appender' = [appender EXCEPT ![c] = IdleAppender]
  /\ UNCHANGED <<wal, calls>>
  /\ appendFrame

AppendNext ==
  \E c \in TcpConns :
    \/ AppendBegin(c)
    \/ AppendWrite(c)
    \/ AppendSync(c)

AppendSpec ==
  Init /\ [][AppendNext]_vars

(***************************************************************************)
(* The hub with several WebSocket subscribers                              *)
(***************************************************************************)
\* browsers connect, send set and del commands, and leave
HubOpen ==
  \E w \in WsConns : WsConnect(w)

HubSetStep ==
  \E w \in WsConns, k \in CmdKeys, v \in Values : WsSet(w, k, v)

HubDelStep ==
  \E w \in WsConns, k \in CmdKeys : WsDel(w, k)

HubPublishStep ==
  \E w \in WsConns : WsPublish(w)

HubCloseStep ==
  \E w \in WsConns : WsClose(w)

HubNext ==
  \/ HubOpen
  \/ HubSetStep
  \/ HubDelStep
  \/ HubPublishStep
  \/ HubCloseStep

HubSpec ==
  Init /\ [][HubNext]_vars

\* a TCP client's commands fanned out to browsers that only listen
FanoutNext ==
  \/ Receive
  \/ WalStep
  \/ GetStep
  \/ ApplyStep
  \/ StatsStep
  \/ PublishStep
  \/ DoneStep
  \/ HubOpen
  \/ HubCloseStep

FanoutSpec ==
  Init /\ [][FanoutNext]_vars

(***************************************************************************)
(* Callers of the store waiting for Store.mu next to the cleanup goroutine *)
(***************************************************************************)
\* store operations that take the lock
StoreOps ==
  { "Set", "Get", "Delete", "GetAll" }

lockFrame ==
  UNCHANGED <<now, Nodes, self, wal, durable, tcp, ws, clients, wsInbox, hubLog, boots,
              issued, apiVars, fnVars, mgr, calls, appender, page, peers, hubRun>>

\* goroutine t calls a store operation and blocks in s.mu.Lock()
LockRequest(t) ==
  /\ lockq[t] = "idle"
  /\ \E op \in StoreOps : lockq' = [lockq EXCEPT ![t] = op]
  /\ UNCHANGED <<storeVars, lockVars>>
  /\ lockFrame

\* goroutine t is granted the lock, runs its operation and unlocks
LockGrant(t) ==
  /\ lockq[t] # "idle"
  /\ mu = "free"
  /\ CASE lockq[t] = "Set" ->
            \E k \in CmdKeys, v \in Values :
              \/ Set(k, v)
              \/ \E ttl \in 0..MaxTTL : SetWithTTL(k, v, ttl)
       [] lockq[t] = "Get" -> \E k \in CmdKeys : Get(k)
       [] lockq[t] = "Delete" -> \E k \in CmdKeys : Delete(k)
       [] OTHER -> UNCHANGED storeVars
  /\ lockq' = [lockq EXCEPT ![t] = "idle"]
  /\ UNCHANGED lockVars
  /\ lockFrame

LockNext ==
  \/ \E t \in Callers : LockRequest(t)
  \/ \E t \in Callers : LockGrant(t)
  \/ CleanupStart
  \/ Cleanup
  \/ ClockTick

\* the cleanup goroutine keeps running while it holds the lock, and
\* sync.Mutex hands the lock to a goroutine that keeps waiting for it
\* (starvation mode)
LockSpec ==
  /\ Init
  /\ [][LockNext]_vars
  /\ WF_vars(Cleanup)
  /\ \A t \in Callers : SF_vars(LockGrant(t))

(***************************************************************************)
(* internal/query: HandleCursorPagination over the keys of the store       *)
(***************************************************************************)
\* cursors a client sends: "", "a", "b", "c", "d", "e"
Cursors ==
  { << >>, <<97>>, <<98>>, <<99>>, <<100>>, <<101>> }
\* limits a client sends
MaxLimit ==
  2

\* a < b for Go strings (byte-wise)
StrLess(a, b) ==
  \E i \in 1..(Min(Len(a), Len(b)) + 1) :
    /\ \A j \in 1..(i - 1) : a[j] = b[j]
    /\ \/ i > Len(a) /\ i <= Len(b)
       \/ i <= Len(a) /\ i <= Len(b) /\ a[i] < b[i]

RECURSIVE SortStrings(_)
\* sort.Strings applied to the strings of S
SortStrings(S) ==
  IF S = {} THEN << >>
  ELSE LET m == CHOOSE x \in S : \A y \in S : x = y \/ StrLess(x, y)
       IN  <<m>> \o SortStrings(S \ {m})

\* sort.SearchStrings(a, x): the smallest 0-based index i with a[i] >= x, or len(a)
SearchStrings(a, x) ==
  Cardinality({ i \in DOMAIN a : StrLess(a[i], x) })

\* HandleCursorPagination(s, cursor, limit); indices are 0-based as in the code
HandleCursorPagination(cursor, limit) ==
  LET allKeys == SortStrings(DOMAIN data)
      cidx    == IF cursor = << >> THEN 0 ELSE SearchStrings(allKeys, cursor) + 1
      endIdx  == cidx + limit
      hasMore == endIdx < Len(allKeys)
  IN  [cursor |-> cursor, limit |-> limit, all |-> allKeys,
       keys |-> SubSeq(allKeys, cidx + 1, Min(endIdx, Len(allKeys))),
       next_cursor |-> IF hasMore THEN allKeys[endIdx] ELSE << >>,
       has_more |-> hasMore]

\* one request GET /api/v1/keys?limit=..&cursor=..
Paginate ==
  /\ page = NotPaged
  /\ mu = "free"
  /\ \E cursor \in Cursors, limit \in 1..MaxLimit :
       page' = HandleCursorPagination(cursor, limit)
  /\ UNCHANGED <<storeVars, lockVars, now, Nodes, self, wal, durable, tcp, ws, clients,
                 wsInbox, hubLog, boots, issued, apiVars, fnVars, mgr, calls, appender, lockq, peers, hubRun>>

PageNext ==
  \/ ApiSet
  \/ ApiDelete
  \/ Paginate

PageSpec ==
  Init /\ [][PageNext]_vars

(***************************************************************************)
(* Active expiration of keys that are never read again                     *)
(***************************************************************************)
\* a sampling pass whose random indices hit key k
CleanupSamples(k) ==
  \E visited \in SUBSET Keys, timeLeft \in BOOLEAN :
    /\ k \in visited
    /\ CleanupPass(visited, timeLeft)
    /\ UNCHANGED <<now, nonStoreVars, apiVars>>

ExpireNext ==
  \/ ApiSet
  \/ ApiSetWithTTL
  \/ ApiDelete
  \/ CleanupStart
  \/ Cleanup
  \/ ClockTick

\* the cleanup goroutine keeps running (for { ... } with sleeps of bounded
\* length) and rand.Intn hits every index of keySlice again and again
ExpireSpec ==
  /\ Init
  /\ [][ExpireNext]_vars
  /\ WF_vars(CleanupStart)
  /\ WF_vars(Cleanup)
  /\ \A k \in Keys : SF_vars(CleanupSamples(k))

(***************************************************************************)
(* Three processes, each with its own Manager, joined by CLUSTER MEET      *)
(***************************************************************************)
\* all state but the managers of the three processes
peerFrame ==
  UNCHANGED <<storeVars, lockVars, now, Nodes, self, wal, durable, tcp, ws, clients,
              wsInbox, hubLog, boots, issued, apiVars, fnVars, mgr, calls, appender,
              lockq, page, hubRun>>

\* the process on port n receives CLUSTER MEET 127.0.0.1 m: AddNode of its
\* own manager, under an id the process generates itself
PeerMeet(n, m) ==
  /\ n # m
  /\ \A i \in DOMAIN peers[n].Nodes : peers[n].Nodes[i].Port # m
  /\ \E pos \in 1..(Len(peers[n].Nodes) + 1) :
       LET n1 == InsertAt(peers[n].Nodes, pos, NewNode(SelfHost, m)) IN
       peers' = [peers EXCEPT ![n] =
                   [Nodes |-> IF Len(n1) = 3 THEN InitializeCluster(n1) ELSE n1,
                    self  |-> IF pos <= @.self THEN @.self + 1 ELSE @.self]]
  /\ peerFrame

\* GetNodeForSlots(slot) of the process on port n, as the ports it can name
PeerOwners(n, slot) ==
  LET ns == peers[n].Nodes IN
  IF Len(ns) < 3 \/ ~\E i \in DOMAIN ns : InRange(slot, ns[i])
  THEN {n}
  ELSE { ns[i].Port : i \in { j \in DOMAIN ns : InRange(slot, ns[j]) } }

\* checkSlotOwnership(key) = "" in the process on port n: it serves the key
PeerAccepts(n, key) ==
  LET ns == peers[n].Nodes IN
  Len(ns) < 3 \/ InRange(SlotTable[key], ns[peers[n].self])

PeerNext ==
  \E n \in PeerPorts, m \in PeerPorts : PeerMeet(n, m)

PeerSpec ==
  Init /\ [][PeerNext]_vars

(***************************************************************************)
(* Two client connections, each served by its own handleConnection         *)
(***************************************************************************)
\* either connection reads a key command
ReceiveOnAny ==
  \E c \in TcpConns, parts \in KeyCommands : TcpReceive(c, parts)

RaceNext ==
  \/ ReceiveOnAny
  \/ WalStep
  \/ GetStep
  \/ ApplyStep
  \/ StatsStep
  \/ PublishStep
  \/ DoneStep

RaceSpec ==
  Init /\ [][RaceNext]_vars

\* the value of the last SET record of key k in the log
LastLoggedValue(k) ==
  LET recs == { i \in DOMAIN wal : wal[i][1] = "SET" /\ wal[i][2] = k }
      last == CHOOSE i \in recs : \A j \in recs : j <= i
  IN  wal[last][3]

\* connection c has logged and applied a SET of key k
AppliedSet(c, k) ==
  /\ tcp[c].applied
  /\ ~tcp[c].walErr
  /\ tcp[c].parts[1] = "SET"
  /\ tcp[c].parts[2] = k

(***************************************************************************)
(* Hub.Run and the writers of a WebSocket connection, step by step         *)
(***************************************************************************)
\* Hub.Run waits in its select
HubInSelect ==
  hubRun.cur = 0 /\ hubRun.todo = {}

\* all state but the hub, the connections and the store
pumpFrame ==
  UNCHANGED <<lockVars, now, Nodes, self, wal, durable, boots, apiVars, fnVars,
              mgr, calls, appender, lockq, page, peers>>

\* handleWsConnection: hub.Register(ws) is received by Hub.Run
PumpRegister(w) ==
  /\ HubInSelect
  /\ WsConnect(w)

\* the subscriber stops reading and its socket buffers are full: a write to
\* the connection does not return (no write deadline is set)
WsStall(w) ==
  /\ ws[w].pc = "open"
  /\ w \notin hubRun.blocked
  /\ hubRun' = [hubRun EXCEPT !.blocked = @ \cup {w}]
  /\ UNCHANGED <<storeVars, tcp, ws, clients, wsInbox, hubLog, issued>>
  /\ pumpFrame

\* hub.BroadcastMessage of handleSetCommand / handleDeleteCommand: the send
\* on the unbuffered h.broadcast meets the receive of Hub.Run
TcpSend(c) ==
  /\ tcp[c].pc = "publish"
  /\ HubInSelect
  /\ LET parts == tcp[c].parts
         msg   == IF parts[1] = "SET" THEN UpdateMessage("set", parts[2], parts[3])
                  ELSE UpdateMessage("del", parts[2], << >>)
     IN  /\ hubLog' = Append(hubLog, msg)
         /\ hubRun' = [hubRun EXCEPT !.msg = IF clients = {} THEN NoMessage ELSE msg,
                                     !.todo = clients]
  /\ tcp' = [tcp EXCEPT ![c] = [@ EXCEPT !.published = TRUE, !.pc = "done"]]
  /\ UNCHANGED <<storeVars, ws, clients, wsInbox, issued>>
  /\ pumpFrame

\* Hub.Run, case message: the loop reaches client w and calls WriteMessage
HubWriteBegin(w) ==
  /\ hubRun.cur = 0
  /\ w \in hubRun.todo
  /\ hubRun' = [hubRun EXCEPT !.cur = w]
  /\ UNCHANGED <<storeVars, tcp, ws, clients, wsInbox, hubLog, issued>>
  /\ pumpFrame

\* WriteMessage that never returns
HubWriteEndNever(w) ==
  /\ hubRun.cur = w
  /\ UNCHANGED <<wsInbox, hubRun>>
  /\ UNCHANGED <<storeVars, tcp, ws, clients, hubLog, issued>>
  /\ pumpFrame

\* WriteMessage to client w returns (with or without an error); after the
\* last client Hub.Run unlocks and returns to its select
HubWriteEnd(w) ==
  /\ hubRun.cur = w
  /\ w \notin hubRun.blocked
  /\ \E err \in BOOLEAN :
       wsInbox' = [wsInbox EXCEPT ![w] = Append(@, WriteMessage(hubRun.msg, err))]
  /\ hubRun' = [hubRun EXCEPT !.cur = 0, !.todo = @ \ {w},
                              !.msg = IF hubRun.todo = {w} THEN NoMessage ELSE @]
  /\ UNCHANGED <<storeVars, tcp, ws, clients, hubLog, issued>>
  /\ pumpFrame

\* handleWsConnection, case "GET": s.Get(cmd.Key), then ws.WriteJSON(resp) begins
ReplyBegin(w) ==
  /\ ws[w].pc = "open"
  /\ hubRun.replying[w] = NoMessage
  /\ issued < MaxCmds
  /\ issued' = issued + 1
  /\ \E k \in CmdKeys :
       /\ Get(k)
       /\ hubRun' = [hubRun EXCEPT !.replying[w] =
                       UpdateMessage("get_resp", k,
                                     IF GetOk(k) THEN GetValue(k) ELSE <<40, 110, 105, 108, 41>>)]
  /\ UNCHANGED <<tcp, ws, clients, wsInbox, hubLog>>
  /\ pumpFrame

\* ws.WriteJSON(resp) returns
ReplyEnd(w) ==
  /\ hubRun.replying[w] # NoMessage
  /\ w \notin hubRun.blocked
  /\ \E err \in BOOLEAN :
       wsInbox' = [wsInbox EXCEPT ![w] = Append(@, WriteMessage(hubRun.replying[w], err))]
  /\ hubRun' = [hubRun EXCEPT !.replying[w] = NoMessage]
  /\ UNCHANGED <<storeVars, tcp, ws, clients, hubLog, issued>>
  /\ pumpFrame

PumpOpen ==
  PumpRegister(WsClient)

PumpStall ==
  WsStall(WsClient)

PumpSend ==
  \E c \in TcpConns : TcpSend(c)

PumpWriteBegin ==
  HubWriteBegin(WsClient)

PumpWriteEnd ==
  HubWriteEnd(WsClient)

PumpReplyBegin ==
  ReplyBegin(WsClient)

PumpReplyEnd ==
  ReplyEnd(WsClient)

PumpNext ==
  \/ Receive
  \/ WalStep
  \/ GetStep
  \/ ApplyStep
  \/ StatsStep
  \/ DoneStep
  \/ PumpOpen
  \/ PumpStall
  \/ PumpSend
  \/ PumpWriteBegin
  \/ PumpWriteEnd
  \/ PumpReplyBegin
  \/ PumpReplyEnd

\* every goroutine of the server takes its next step when it can: the
\* connection goroutines, Hub.Run and the handler of the WebSocket
\* connection.  Clients and subscribers are under no obligation.
PumpSpec ==
  /\ Init
  /\ [][PumpNext]_vars
  /\ WF_vars(WalStep)
  /\ WF_vars(GetStep)
  /\ WF_vars(ApplyStep)
  /\ WF_vars(StatsStep)
  /\ WF_vars(DoneStep)
  /\ WF_vars(PumpSend)
  /\ WF_vars(PumpWriteBegin)
  /\ WF_vars(PumpWriteEnd)
  /\ WF_vars(PumpReplyEnd)

(***************************************************************************)
(* Properties                                                              *)
(***************************************************************************)
\* C1: after any sequence of Set, SetWithTTL, Get, Delete and cleanup steps
\* the LRU list and the lookup map hold exactly the same keys (each once) and
\* their common size never exceeds maxSize.
LRUIndexConsistent ==
  /\ Range(lruList) = DOMAIN data
  /\ Len(lruList) = Cardinality(DOMAIN data)
  /\ Len(lruList) <= maxSize

\* the store is full, holds a permanent and a TTL-bearing entry, and time has passed
LRUIndexFull ==
  /\ Len(lruList) = maxSize
  /\ now > 0
  /\ \E k \in DOMAIN data : data[k].expiration = Nil
  /\ \E k \in DOMAIN data : data[k].expiration # Nil

\* C2: the TTL set is exactly the set of stored keys that carry an expiration
TTLSetExact ==
  withTTL = { k \in DOMAIN data : data[k].expiration # Nil }

\* C3: for every SET or DEL of a TCP connection, the store is mutated only
\* after the command's record was appended and synced, the client is answered
\* +OK / :1 / :0 only after that, and the update is published to the hub only
\* after the store was mutated.
WalBeforeStoreBeforePublish ==
  \A c \in TcpConns :
    LET t == tcp[c] IN
    (t.pc # "idle" /\ t.parts[1] \in { "SET", "DEL" }) =>
      /\ t.applied => t.logged
      /\ t.reply.kind \in { "OK", "INT" } => t.logged
      /\ t.published => t.applied
      /\ t.logged => \E i \in 1..durable : wal[i] = t.parts

\* a SET went through all its stages: logged, applied, answered, published
SetPublished ==
  \E c \in TcpConns :
    /\ tcp[c].pc = "done"
    /\ tcp[c].parts[1] = "SET"
    /\ tcp[c].published
    /\ tcp[c].reply = ReplyOK
    /\ hubLog # << >>

\* C4: a SET or DEL whose WAL append failed ends with an -ERR reply, and the
\* step in which the append fails, like every later step of that command,
\* leaves the store, the node statistics and the hub unchanged.
WalFailureAborts ==
  /\ [](\A c \in TcpConns :
          tcp[c].walErr =>
            /\ tcp[c].pc = "done"
            /\ tcp[c].reply.kind = "ERR"
            /\ ~tcp[c].applied
            /\ ~tcp[c].published)
  /\ [][\A c \in TcpConns :
          (tcp[c].pc = "wal" /\ tcp'[c].walErr) =>
            UNCHANGED <<storeVars, clusterVars, hubVars>>]_vars

\* a DEL was refused because its record could not be written
DelRefusedOnWalError ==
  \E c \in TcpConns :
    /\ tcp[c].walErr
    /\ tcp[c].parts[1] = "DEL"
    /\ tcp[c].reply.kind = "ERR"

\* C5: when the process restarts, every key whose last record in the log is
\* a synced SET k v is stored with value v after startup.
RestartRestoresLoggedSet ==
  [][boots' # boots =>
       \A k \in CmdKeys :
         LET idx == { i \in DOMAIN wal : wal[i][2] = k } IN
         \A i \in idx :
           ((\A j \in idx : j <= i) /\ i <= durable /\ wal[i][1] = "SET") =>
             (k \in DOMAIN data' /\ data'[k].value = wal[i][3])]_vars

\* C6: after startup the store equals the result of applying the records of
\* the log, in append order, to an empty store.
StartupReplaysLog ==
  [][boots' # boots =>
       LET RECURSIVE Replay(_, _)
           Replay(w, i) ==
             IF i = 0 THEN << >>
             ELSE LET m == Replay(w, i - 1) IN
                  IF w[i][1] = "SET" THEN MapPut(m, w[i][2], w[i][3])
                  ELSE MapDelete(m, w[i][2])
       IN  GetAll' = Replay(wal', Len(wal'))]_vars

\* C7: every stored value is the value of a SET record of the log
StoredValuesAreLogged ==
  \A k \in DOMAIN data :
    \E i \in DOMAIN wal : wal[i] = <<"SET", k, data[k].value>>

\* C8: with 3 or more nodes known, a SET, GET or DEL received for a key whose
\* slot lies outside this node's range is answered at once with -MOVED, the
\* slot and the host:port of the node whose range holds the slot, and the
\* step changes neither the log, the store, the statistics nor the hub.
RedirectFrame ==
  [][\A c \in TcpConns :
       (/\ tcp[c].pc = "idle"
        /\ tcp'[c].pc # "idle"
        /\ tcp'[c].parts[1] \in { "SET", "GET", "DEL" }
        /\ Len(tcp'[c].parts) >= 2
        /\ Len(Nodes) >= 3
        /\ ~InRange(SlotTable[tcp'[c].parts[2]], Nodes[self]))
       =>
       (/\ tcp'[c].pc = "done"
        /\ \E o \in DOMAIN Nodes :
             /\ InRange(SlotTable[tcp'[c].parts[2]], Nodes[o])
             /\ tcp'[c].reply = ReplyMoved(SlotTable[tcp'[c].parts[2]],
                                           Nodes[o].Host, Nodes[o].Port)
        /\ UNCHANGED <<walVars, storeVars, clusterVars, hubVars>>)]_vars

\* a SET was redirected to another node in a cluster of more than 3 nodes
SetRedirected ==
  \E c \in TcpConns :
    /\ tcp[c].pc = "done"
    /\ tcp[c].parts[1] = "SET"
    /\ tcp[c].reply.kind = "MOVED"
    /\ tcp[c].reply.port # SelfPort
    /\ Len(Nodes) > 3

\* C9: once 3 or more nodes are known, every slot of [0, 16384) lies in the
\* range of exactly one node (ranges pairwise disjoint, union complete) and
\* no range reaches outside [0, 16384).
SlotCoverage ==
  Len(Nodes) >= 3 =>
    /\ \A slot \in 0..(SLOT_RANGE - 1) :
         Cardinality({ id \in DOMAIN Nodes : InRange(slot, Nodes[id]) }) = 1
    /\ \A id \in DOMAIN Nodes :
         Nodes[id].Slot # Unassigned =>
           /\ 0 <= Nodes[id].Slot.Start
           /\ Nodes[id].Slot.Start <= Nodes[id].Slot.End
           /\ Nodes[id].Slot.End < SLOT_RANGE

\* a node was added after the cluster had formed
ClusterGrownPastThree ==
  Len(Nodes) > 3

\* C10: below 3 nodes every node is unassigned; from 3 nodes on exactly three
\* nodes hold ranges; a step taken with 3 or more nodes keeps every known
\* node's range and leaves the node it adds unassigned.
SlotLifecycle ==
  /\ [](Len(Nodes) < 3 => \A id \in DOMAIN Nodes : Nodes[id].Slot = Unassigned)
  /\ [](Len(Nodes) >= 3 =>
          Cardinality({ id \in DOMAIN Nodes : Nodes[id].Slot # Unassigned }) = 3)
  /\ [][Len(Nodes) >= 3 /\ Nodes' # Nodes =>
          \E pos \in DOMAIN Nodes' :
            /\ Nodes'[pos].Slot = Unassigned
            /\ SubSeq(Nodes', 1, pos - 1) \o SubSeq(Nodes', pos + 1, Len(Nodes')) = Nodes
            /\ self' = IF pos <= self THEN self + 1 ELSE self]_vars

\* a fourth node is known and carries the sentinel next to three assigned nodes
LateNodeUnassigned ==
  /\ Len(Nodes) > 3
  /\ \E id \in DOMAIN Nodes : Nodes[id].Slot = Unassigned
  /\ Nodes[self].Slot # Unassigned

SlotRouting ==
  /\ \A k \in Keys : SlotTable[k] >= 0 /\ SlotTable[k] < SLOT_RANGE
  /\ Len(Nodes) < 3 => \A slot \in ProbeSlots : GetNodeForSlots(slot) = {self}
  /\ Len(Nodes) >= 3 =>
       \A slot \in { x \in ProbeSlots : x >= 0 /\ x < SLOT_RANGE }
                   \cup { SlotTable[k] : k \in Keys } :
         \E id \in DOMAIN Nodes :
           /\ GetNodeForSlots(slot) = {id}
           /\ Nodes[id].Slot.Start <= slot
           /\ slot <= Nodes[id].Slot.End

\* a key of the model is routed to a node other than this one
KeyRoutedElsewhere ==
  /\ Len(Nodes) >= 3
  /\ \E k \in Keys : \E id \in DOMAIN Nodes :
       /\ id # self
       /\ GetNodeForSlots(SlotTable[k]) = {id}

\* C14: a Set of a new key into a store that holds maxSize entries removes
\* exactly one entry, the one the caller touched least recently by a Set or a
\* successful Get, and never the key just inserted.
EvictsLeastRecentlyTouched ==
  [][\A k \in Keys :
       (FullInsert(k) /\ k \in DOMAIN data') =>
         /\ recency # << >>
         /\ recency[Len(recency)] # k
         /\ DOMAIN data' = ((DOMAIN data) \ {recency[Len(recency)]}) \cup {k}
         /\ Cardinality(DOMAIN data') = maxSize]_vars

\* a Set of a new key found the store full: one key left, the store is full
\* again and holds the new key
EvictedOnFullInsert ==
  /\ Cardinality(evicted) = 1
  /\ evicted \cap DOMAIN data = {}
  /\ Cardinality(DOMAIN data) = maxSize
  /\ recency # << >>
  /\ recency[1] \in DOMAIN data

\* C15: a Set without TTL on a stored key that carries an expiration makes the
\* key permanent: from then on, until the caller deletes it, sets it with a
\* TTL or it is evicted, the key stays stored without expiration and outside
\* the TTL set, also when a Get or the cleanup loop runs after the replaced
\* expiration has passed.
ClearedKeyStaysPermanent ==
  \A k \in Keys :
    cleared[k] # Nil =>
      /\ k \in DOMAIN data
      /\ data[k].expiration = Nil
      /\ k \notin withTTL

\* a Get read a key after the expiration that a Set had replaced
ReadAfterClearedExpiration ==
  \E k \in probed :
    /\ cleared[k] # Nil
    /\ cleared[k] < now
    /\ k \in DOMAIN data

\* C16: a key whose last Get found it expired is in no later snapshot until it
\* is set again.
ExpiredStaysAbsent ==
  \A k \in lapsed : k \notin DOMAIN GetAll

\* a Get found a key expired and the snapshot, which holds another key, omits it
ExpiredOmittedFromSnapshot ==
  /\ lapsed # {}
  /\ DOMAIN GetAll # {}
  /\ lapsed \cap DOMAIN GetAll = {}

\* C17: CalculateSlot hashes the text between the first '{' and the next '}'
\* only when that text is non-empty; when the '}' is missing or directly
\* follows the '{', the whole key is hashed.
EmptyTagHashesWholeKey ==
  Len(hashIn) = 1 =>
    LET key   == hashIn[1]
        opens == { i \in DOMAIN key : key[i] = 123 }
        i     == CHOOSE x \in opens : \A z \in opens : x <= z
        shuts == { j \in DOMAIN key : j > i /\ key[j] = 125 }
        j     == CHOOSE x \in shuts : \A z \in shuts : x <= z
        text  == IF opens # {} /\ shuts # {} /\ j > i + 1
                 THEN SubSeq(key, i + 1, j - 1)
                 ELSE key
    IN  hashOut[1] = ChecksumIEEE(text)[2] % SLOT_RANGE

\* C18 as stated: two keys x{t}y and a{t}b map to the same slot for all
\* strings x, y, a, b.
SameTagSameSlot ==
  Len(hashIn) = 5 => hashOut[1] = hashOut[2]

\* C18 amended: two keys x{t}y and a{t}b map to the same slot for all
\* suffixes y, b and all prefixes x, a that contain no '{'.
SameFirstTagSameSlot ==
  (/\ Len(hashIn) = 5
   /\ \A i \in DOMAIN hashIn[1] : hashIn[1][i] # 123
   /\ \A i \in DOMAIN hashIn[4] : hashIn[4][i] # 123)
  => hashOut[1] = hashOut[2]

\* two different keys with tag "a", prefixes without '{', map to one slot
TaggedPairCoLocated ==
  /\ Len(hashIn) = 5
  /\ hashIn[2] = <<97>>
  /\ hashIn[1] = <<97>>
  /\ hashIn[4] = <<125>>
  /\ hashIn[3] # hashIn[5]
  /\ hashOut[1] = hashOut[2]

\* C19: reading back a log written with WriteCommand yields exactly the
\* written commands, in order, and then end-of-stream, also for empty strings
\* and strings that contain CR or LF.
WriteReadRoundTrip ==
  (readLog # NotRead /\ torn = NotTorn) =>
    readLog = [entries |-> cmds, end |-> "eof"]

\* C20: when a crash cut the last record after its header, the reader returns
\* the complete records before it and then end-of-stream, without an error
\* (stated for commands without LF, which C19 is about).
TornTailIsAbsent ==
  (/\ readLog # NotRead
   /\ torn # NotTorn
   /\ torn[2] >= Len(ArrayHeader(cmds[torn[1] + 1]))
   /\ \A i \in DOMAIN cmds : \A j \in DOMAIN cmds[i] : \A x \in DOMAIN cmds[i][j] :
        cmds[i][j][x] # 10)
  => readLog = [entries |-> SubSeq(cmds, 1, torn[1]), end |-> "eof"]

\* C21: the self node's KeyCount and ByteSize are never negative, for any
\* sequence and any interleaving of IncrementKeyCount, DecrementKeyCount,
\* AddByteSize and SubtractByteSize issued by command goroutines.
CountersNeverNegative ==
  /\ Nodes[self].KeyCount >= 0
  /\ Nodes[self].ByteSize >= 0

\* C22: on the TCP command path a SET of a new key raises the self node's
\* KeyCount by exactly 1 and its ByteSize by len(k)+len(v), a SET of an
\* existing key leaves KeyCount unchanged and replaces the old byte
\* contribution by the new one, and a DEL that removed a key lowers KeyCount
\* by exactly 1 and ByteSize by len(k)+len(old value).
StatsFollowCommands ==
  [][\A c \in TcpConns :
       (tcp[c].pc = "stats" /\ tcp'[c].pc = "publish") =>
         LET parts == tcp[c].parts
             k     == parts[2]
             old   == Len(k) + Len(tcp[c].oldValue)
             node  == Nodes[self]
             after == Nodes'[self']
         IN  IF parts[1] = "SET"
             THEN IF ~tcp[c].existsBefore
                  THEN /\ after.KeyCount = node.KeyCount + 1
                       /\ after.ByteSize = node.ByteSize + Len(k) + Len(parts[3])
                  ELSE /\ after.KeyCount = node.KeyCount
                       /\ after.ByteSize = node.ByteSize - old + Len(k) + Len(parts[3])
             ELSE /\ after.KeyCount = node.KeyCount - 1
                  /\ after.ByteSize = node.ByteSize - old]_vars

\* C23: accesses to the cluster manager are mutually exclusive: while one
\* goroutine is inside AddNode / InitializeCluster no other goroutine is
\* inside an owner lookup or a statistics method, so no lookup runs on a
\* half-assigned set of slot ranges.
ManagerAccessExclusive ==
  /\ \A t \in MgrTasks, u \in MgrTasks :
       t # u => (mgr[t].pc = "idle" \/ mgr[u].pc = "idle")
  /\ \A t \in MgrTasks :
       mgr[t].pc \in {"lookup_len", "lookup_scan"} =>
         \/ \A id \in DOMAIN Nodes : Nodes[id].Slot = Unassigned
         \/ Cardinality({ id \in DOMAIN Nodes : Nodes[id].Slot # Unassigned }) = 3

\* C24: at most one WAL append is in progress at any time: the write-and-sync
\* of one record never overlaps that of a record of another connection.
\* (a connection whose record is written and not yet synced is alone in that)
AtMostOneAppend ==
  \A c \in TcpConns, d \in TcpConns :
    c # d => ~(appender[c].pc = "sync" /\ appender[d].pc = "sync")

\* C25: every message the hub takes from its broadcast channel is written
\* once to each connection that is in the subscriber set at that moment (and
\* to no other); a connection whose Register has returned and that was not
\* unregistered is in the set, so it is written every update published from
\* then on.
BroadcastReachesSubscribers ==
  /\ [](\A w \in WsConns : ws[w].pc # "closed" <=> w \in clients)
  /\ [][hubLog' # hubLog =>
          /\ Len(hubLog') = Len(hubLog) + 1
          /\ \A w \in WsConns :
               IF w \in clients
               THEN \E err \in BOOLEAN :
                      wsInbox'[w] = Append(wsInbox[w],
                                           WriteMessage(hubLog'[Len(hubLog')], err))
               ELSE wsInbox'[w] = wsInbox[w]]_vars

\* a set sent by one browser was written to both connected browsers
SetReachedOtherClient ==
  /\ clients = WsConns
  /\ hubLog # << >>
  /\ hubLog[Len(hubLog)].action = "set"
  /\ \A w \in WsConns :
       /\ wsInbox[w] # << >>
       /\ wsInbox[w][Len(wsInbox[w])] = WriteMessage(hubLog[Len(hubLog)], FALSE)

\* C26: a write failure on one subscriber during a broadcast does not stop
\* the message from being written to the remaining subscribers, removes no
\* subscriber, and changes neither the reply nor the store effect of the
\* command that triggered the broadcast.
WriteFailureIsSwallowed ==
  [][(/\ hubLog' # hubLog
      /\ \E w \in clients :
           /\ Len(wsInbox'[w]) > Len(wsInbox[w])
           /\ wsInbox'[w][Len(wsInbox'[w])].err)
     => /\ \A w \in clients :
             /\ Len(wsInbox'[w]) = Len(wsInbox[w]) + 1
             /\ wsInbox'[w][Len(wsInbox'[w])].msg = hubLog'[Len(hubLog')]
        /\ clients' = clients
        /\ UNCHANGED <<storeVars, walVars, clusterVars>>
        /\ \A c \in TcpConns : tcp'[c].reply = tcp[c].reply]_vars

\* the write of a TCP client's update failed on the first browser and
\* succeeded on the second, and the client was answered +OK
FailedWriteOnFirstSubscriber ==
  /\ clients = WsConns
  /\ tcp[ClientConn].published
  /\ tcp[ClientConn].reply = ReplyOK
  /\ hubLog # << >>
  /\ wsInbox[1] # << >>
  /\ wsInbox[2] # << >>
  /\ wsInbox[1][Len(wsInbox[1])] = WriteMessage(hubLog[Len(hubLog)], TRUE)
  /\ wsInbox[2][Len(wsInbox[2])] = WriteMessage(hubLog[Len(hubLog)], FALSE)

\* C27: a DEL replies :1 and publishes {action: "del", key} exactly when the
\* store removed the key; a DEL of a key that is not stored replies :0 and
\* publishes nothing; after the DEL the key is absent, so a second DEL right
\* after it replies :0.
DelRepliesWhatStoreDid ==
  /\ [](\A c \in TcpConns :
          (tcp[c].pc = "done" /\ tcp[c].parts[1] = "DEL") =>
            /\ tcp[c].reply = ReplyInt(1) <=> tcp[c].applied
            /\ tcp[c].published <=> tcp[c].applied
            /\ (tcp[c].reply.kind = "INT" /\ ~tcp[c].applied) => tcp[c].reply = ReplyInt(0))
  /\ [][\A c \in TcpConns :
          (tcp[c].pc = "apply" /\ tcp'[c].pc = "stats" /\ tcp[c].parts[1] = "DEL") =>
            /\ tcp'[c].applied <=> tcp[c].parts[2] \in DOMAIN data
            /\ tcp[c].parts[2] \notin DOMAIN data']_vars
  /\ [][\A c \in TcpConns :
          (tcp[c].pc = "publish" /\ tcp'[c].published /\ tcp[c].parts[1] = "DEL") =>
            hubLog' = Append(hubLog, UpdateMessage("del", tcp[c].parts[2], << >>))]_vars

\* a DEL removed a stored key, was answered :1 and its update was published
DelRemovedAndPublished ==
  \E c \in TcpConns :
    /\ tcp[c].pc = "done"
    /\ tcp[c].parts[1] = "DEL"
    /\ tcp[c].reply = ReplyInt(1)
    /\ tcp[c].parts[2] \notin DOMAIN data
    /\ hubLog # << >>
    /\ hubLog[Len(hubLog)] = UpdateMessage("del", tcp[c].parts[2], << >>)

\* C28: a SET, GET or DEL line with the wrong number of arguments is always
\* answered -ERR wrong number of arguments for '<CMD>', in single-node mode
\* and in route mode alike and whatever slot its first argument hashes to,
\* and it causes no WAL write and no store change.
WrongArityIsRefused ==
  \A c \in TcpConns :
    LET t == tcp[c] IN
    (/\ t.pc # "idle"
     /\ t.parts[1] \in { "SET", "GET", "DEL" }
     /\ Len(t.parts) # (IF t.parts[1] = "SET" THEN 3 ELSE 2))
    => /\ t.pc = "done"
       /\ t.reply \in { ReplyErr("wrong number of arguments for 'SET'"),
                        ReplyErr("wrong number of arguments for 'GET'"),
                        ReplyErr("wrong number of arguments for 'DEL'") }
       /\ ~t.logged
       /\ ~t.applied

\* C29: for a 3-node cluster the three assigned slot ranges, in sorted
\* node-id order, are 0-5460, 5461-10922 and 10923-16383.
ThreeNodeRanges ==
  Len(Nodes) = 3 =>
    /\ Nodes[1].Slot = [Start |-> 0, End |-> 5460]
    /\ Nodes[2].Slot = [Start |-> 5461, End |-> 10922]
    /\ Nodes[3].Slot = [Start |-> 10923, End |-> 16383]

\* C30: the expiration loop holds the store lock only during a sampling pass
\* and has released it whenever it sleeps; every Set, Get, Delete or snapshot
\* that waits for the lock is eventually granted it.
CleanupYieldsLock ==
  /\ [](mu = "cleanup" <=> cleanupPc = "locked")
  /\ \A t \in Callers : (lockq[t] # "idle") ~> (lockq[t] = "idle")

\* a caller waits for the lock while the cleanup goroutine holds it
CallerWaitsForCleanup ==
  /\ mu = "cleanup"
  /\ \E t \in Callers : lockq[t] = "Set"
  /\ \E t \in Callers : lockq[t] = "GetAll"

\* C31: for any cursor c and limit n the key-listing page holds the first n
\* stored keys, in ascending order, that are strictly greater than c, also
\* when c is not a key of the store; with has_more true, next_cursor is the
\* last key of the page.
PageStartsAfterCursor ==
  page # NotPaged =>
    LET after == SelectSeq(page.all, LAMBDA k : StrLess(page.cursor, k)) IN
    /\ page.keys = SubSeq(after, 1, Min(page.limit, Len(after)))
    /\ page.has_more => page.next_cursor = page.keys[Len(page.keys)]

\* C32: a pass of the expiration loop removes an entry only if it carries an
\* expiration that lies in the past; a permanent or unexpired key stays, a
\* sampled key that is no longer stored is left alone, and a removed entry
\* leaves the map, the LRU list and the TTL set in the same locked step.
CleanupRemovesOnlyExpired ==
  [][cleanupPc = "locked" =>
       /\ \A k \in (DOMAIN data) \ (DOMAIN data') :
            /\ data[k].expiration # Nil
            /\ data[k].expiration < now
            /\ k \notin withTTL'
            /\ \A i \in DOMAIN lruList' : lruList'[i] # k
       /\ \A k \in withTTL \ withTTL' : k \in DOMAIN data /\ k \notin DOMAIN data'
       /\ \A k \in (DOMAIN data) \cap (DOMAIN data') : data'[k] = data[k]
       /\ Len(lruList) - Len(lruList') = Cardinality((DOMAIN data) \ (DOMAIN data'))]_vars

\* a repeating pass has emptied the TTL set and left a permanent key stored
CleanupKeptPermanentKey ==
  /\ cleanupPc = "locked"
  /\ withTTL = {}
  /\ \E k \in DOMAIN data : data[k].expiration = Nil

\* C33: a key stored with a TTL and never read again is eventually removed
\* from the store by the expiration loop once its expiration has passed.
ExpiredKeyIsEventuallyRemoved ==
  \A k \in Keys : IsExpired(k) ~> ~IsExpired(k)

\* a repeating pass has removed the last stored key, which carried a TTL
CleanupEmptiedStore ==
  /\ cleanupPc = "locked"
  /\ withTTL = {}
  /\ DOMAIN data = {}
  /\ now > 0

\* C34: within one hold of the store lock the expiration loop starts another
\* sampling pass only when more than a quarter of the sample had expired;
\* such a pass has removed at least one key from the TTL set, so the inner
\* loop ends and the lock is released, also when the TTL set has become
\* empty and the sample size is 0.
InnerLoopTerminates ==
  /\ [][cleanupPc = "locked" /\ cleanupPc' = "locked" /\ now' = now =>
          /\ withTTL' \subseteq withTTL
          /\ withTTL' # withTTL
          /\ 4 * Cardinality(withTTL \ withTTL') > Min(20, Cardinality(withTTL))]_vars
  /\ (cleanupPc = "locked") ~> (cleanupPc = "idle" /\ mu = "free")

\* the next pass of the inner loop runs over an empty TTL set: sample size 0
PassOverEmptyTtlSet ==
  /\ cleanupPc = "locked"
  /\ mu = "cleanup"
  /\ Cardinality(withTTL) = 0
  /\ Len(lruList) <= 1

\* C35: when each of three nodes has learned the two others through CLUSTER
\* MEET, all three assign every slot to the same host:port: exactly one node
\* accepts a key, and the node named in a MOVED reply accepts it.
PeersAgreeOnOwners ==
  (\A n \in PeerPorts : Len(peers[n].Nodes) = 3) =>
    \A k \in Keys :
      /\ \A n, m \in PeerPorts : PeerOwners(n, SlotTable[k]) = PeerOwners(m, SlotTable[k])
      /\ Cardinality({ n \in PeerPorts : PeerAccepts(n, k) }) = 1
      /\ \A n \in PeerPorts : \A o \in PeerOwners(n, SlotTable[k]) : PeerAccepts(o, k)

\* C36: when two connections concurrently SET the same key, the value left in
\* the store is the value of the later of their two WAL records.
StoreFollowsLogOrder ==
  \A k \in CmdKeys :
    (\A c \in TcpConns : AppliedSet(c, k)) => data[k].value = LastLoggedValue(k)

\* C38: the presence check and the store write of SET and DEL are atomic with
\* respect to other connections: what a connection read about the key still
\* holds when it writes, so the statistics it derives count the stored keys.
PresenceCheckStaysValid ==
  \A c \in TcpConns :
    tcp[c].pc = "apply" => tcp[c].existsBefore = GetOk(tcp[c].parts[2])

\* C37: at most one task writes to a given WebSocket connection at a time:
\* the broadcast write of Hub.Run to a subscriber never overlaps a direct
\* reply that the connection's own handler writes to the same connection.
OneWriterPerConnection ==
  \A w \in WsConns : ~(hubRun.cur = w /\ hubRun.replying[w] # NoMessage)

\* C39: a subscriber that stops reading cannot stall command processing:
\* every TCP SET or DEL that was applied eventually returns from publishing
\* and its connection goes on to read the next command.
PublishAlwaysReturns ==
  \A c \in TcpConns : (tcp[c].pc = "publish") ~> (tcp[c].pc = "idle")

\* C39 (amended): an applied TCP SET or DEL eventually returns from publishing
\* and its connection reads the next command, unless a subscriber has stopped
\* reading.
PublishReturnsWhileSubscribersRead ==
  \A c \in TcpConns :
    (tcp[c].pc = "publish") ~> (tcp[c].pc = "idle" \/ hubRun.blocked # {})

\* a connection waits to publish while Hub.Run writes to a reading subscriber
PublisherWaitsForHub ==
  /\ \E c \in TcpConns : tcp[c].pc = "publish"
  /\ hubRun.cur # 0
  /\ hubRun.blocked = {}

\* C40: in route mode the store holds only keys whose slot lies in this
\* node's own range: no key stays stored on a node that answers MOVED for it.
StoreHoldsOnlyOwnKeys ==
  Len(Nodes) >= 3 => \A k \in DOMAIN data : InRange(SlotTable[k], Nodes[self])

\* C40 (amended): a SET or DEL received over TCP in route mode is logged and
\* applied only if the key's slot lies in this node's own range; keys stored
\* before the cluster formed stay stored.
RoutedWritesAreOwnKeys ==
  \A c \in TcpConns :
    (/\ tcp[c].route
     /\ tcp[c].parts[1] \in { "SET", "DEL" }
     /\ tcp[c].applied \/ tcp[c].pc \in { "wal", "get", "apply" })
    => InRange(SlotTable[tcp[c].parts[2]], Nodes[self])

\* a key written before the cluster formed is stored outside the own range
\* while a SET received in route mode was applied
ForeignKeyStaysStored ==
  /\ Len(Nodes) >= 3
  /\ \E k \in DOMAIN data : ~InRange(SlotTable[k], Nodes[self])
  /\ \E c \in TcpConns : tcp[c].route /\ tcp[c].applied /\ tcp[c].parts[1] = "SET"

====
